---- MODULE Spec2Model ----
(***************************************************************************)
(* State-machine model of terminalMIDI.c: the master clock (beat timer),   *)
(* the playback scanner, the recorder and the keyboard handlers.  Every    *)
(* handler of the run loop is one action; time is the value `now' of       *)
(* mach_absolute_time(), advanced by the environment between handlers.     *)
(*                                                                         *)
(* Time: TLC integers have 32 bits, and a loop of 16 beats lasts 8e9 ns at *)
(* 120 BPM, so every time and duration of the model (now, loopStartTime,   *)
(* nextBeatMachTime, nanosPerTick, nanosPerBeat, timer delays) is counted  *)
(* in units of 10 ns.  The truncations of update_timing_constants are kept *)
(* (at 120 BPM 480 ticks are 49999680 units, one beat is 50000000).        *)
(*                                                                         *)
(* Not modelled: clockStartTime, recordStartBeat and playbackWrapped (the  *)
(* program writes them and never reads them), the status line, and the     *)
(* synthesis backend (synthUnit is non-NULL once init_audio succeeded, and *)
(* main exits otherwise).                                                  *)
(***************************************************************************)
EXTENDS Integers, Sequences, FiniteSets, Bags, TLC

(* ------------------------- program constants --------------------------- *)
BEATS_PER_BAR == 4
TOTAL_BARS == 4
TOTAL_BEATS == BEATS_PER_BAR * TOTAL_BARS
MIDI_TRACKS == 16
TICKS_PER_BEAT == 480
TICKS_PER_16TH == TICKS_PER_BEAT \div 4
totalLoopTicks == TICKS_PER_BEAT * TOTAL_BEATS
NOTE_ON == 144
NOTE_OFF == 128
CONTROL_CHANGE == 176
PROGRAM_CHANGE == 192
NoChannel == -1

(* ------------------------------ bounds --------------------------------- *)
\* MAX_EVENTS_PER_TRACK is 10000 in the program; the model scales it down.
MAX_EVENTS_PER_TRACK == 2
\* Largest value of the monotonic clock, in units of 10 ns (9 seconds).
MaxNanos == 900000000
\* Number of sub-beat time steps the environment may take.
MaxFine == 2
\* Largest emission count the history of a loop pass records.
MaxCount == 3
\* The tempo keys are pressed only while bpm is within this distance of 120.
MaxTempoDelta == 1
\* The General-MIDI programs the user steps through: 0..MaxProgram.
MaxProgram == 2
\* How far a held tempo key takes the tempo from the start-up tempo.
MaxRepeatDelta == 2
\* The last beat of the loop after which the late-handler runs still let time
\* pass.
MaxLateBeat == 5
\* The most external MIDI destinations found at start-up.
MaxDests == 2

VARIABLES
    now,                \* mach_absolute_time()
    timebaseInfo,       \* [numer, denom] from mach_timebase_info
    metronomeBPM, nanosPerTick, nanosPerBeat,
    clockRunning, recording, recordArmed, capsLockOn,
    metronomeEnabled, quantizeEnabled,
    currentBeat, beatsRecorded,
    loopStartTime, nextBeatMachTime, lastPlaybackTick,
    beatTimer,          \* one-shot timer, due `delay' after `setAt' while active
    playbackTimer,      \* 0 (NULL), or the repeat interval
    tempoChangeTimer, tempoChangeDirection,
    programChangeTimer, programChangeDirection,
    tracks, currentChannel, currentOctave, heldNoteChannel, keyIsHeld,
    selectedOutput, midiDestCount,
    savedFile,          \* bytes of the file the last save wrote, <<>> if none
    writeValue,         \* the number handed to write_variable_length
    out,                \* messages handed to the sinks by the last handler
    op,                 \* name of the last handler
    passBag,            \* history: scanner emissions since the last beat-0 rebase
    prevPassBag,        \* history: passBag of the last completed loop pass
    passDone,           \* history: a loop pass has completed
    tempoChangedInPass, \* history: bpm changed since the last rebase
    keyPress,           \* history: note, channel and sink of the NoteOn of a held key
    unmatched,          \* history: keyboard NoteOns not yet followed by a NoteOff
    fineLeft            \* environment: sub-beat time steps left

timeVars == <<now, timebaseInfo, fineLeft, writeValue>>
tempoVars == <<metronomeBPM, nanosPerTick, nanosPerBeat>>
recVars == <<recording, recordArmed, beatsRecorded>>
clockVars == <<clockRunning, currentBeat, loopStartTime, nextBeatMachTime,
               lastPlaybackTick, beatTimer, playbackTimer>>
repeatVars == <<tempoChangeTimer, tempoChangeDirection,
                programChangeTimer, programChangeDirection>>
noteVars == <<tracks, currentChannel, currentOctave, heldNoteChannel>>
switchVars == <<capsLockOn, metronomeEnabled, quantizeEnabled>>
outputVars == <<selectedOutput, midiDestCount, savedFile>>
histVars == <<passBag, prevPassBag, passDone, tempoChangedInPass>>

keyVars == <<keyIsHeld, keyPress, unmatched>>

vars == <<timeVars, tempoVars, recVars, clockVars, repeatVars, noteVars,
          switchVars, outputVars, histVars, keyVars, out, op>>

(* ------------------------------ timing --------------------------------- *)
mach_to_nanos(mach_ticks) == (mach_ticks * timebaseInfo.numer) \div timebaseInfo.denom

nanos_to_mach(nanos) == (nanos * timebaseInfo.denom) \div timebaseInfo.numer

\* nanosPerTick and nanosPerBeat for a tempo: the quotients 60e9/(bpm*480)
\* and 60e9/bpm, truncated, in units of 10 ns (60e9/480 = 125000000, and
\* 60e9/10 = 3 * 2000000000).
update_timing_constants(bpm) ==
    [nanosPerTick |-> (125000000 \div bpm) \div 10,
     nanosPerBeat |-> 3 * (2000000000 \div bpm) + (3 * (2000000000 % bpm)) \div bpm]

\* get_current_tick as a function of the state it reads.  The quotient stays
\* far below 2^32 for every time up to MaxNanos, so the cast to uint32_t
\* keeps its value.
TickAt(running, t, origin, npt) ==
    IF ~running THEN 0
    ELSE (mach_to_nanos(t - origin) \div npt) % totalLoopTicks

get_current_tick == TickAt(clockRunning, now, loopStartTime, nanosPerTick)

\* Half a tick, clamped to 1 ms .. 5 ms.
calculate_playback_interval(bpm) ==
    LET half == (62500000 \div bpm) \div 10
    IN  IF half < 100000 THEN 100000
        ELSE IF half > 500000 THEN 500000 ELSE half

(* ------------------------------ output --------------------------------- *)
Msg(sink, status, d1, d2) == [sink |-> sink, status |-> status, d1 |-> d1, d2 |-> d2]

send_midi_to_output(status, d1, d2) ==
    IF selectedOutput = 0 \/ selectedOutput > midiDestCount THEN <<>>
    ELSE <<Msg(selectedOutput, status, d1, d2)>>

\* The branch on selectedOutput that every sender repeats.
send(status, d1, d2) ==
    IF selectedOutput = 0 THEN <<Msg(0, status, d1, d2)>>
    ELSE send_midi_to_output(status, d1, d2)

note_on_internal(channel, note, velocity) ==
    IF note >= 128 THEN <<>>
    ELSE send(NOTE_ON + channel, note, velocity)

\* note_off_internal sending status 0x80 to either kind of sink.
note_off_internal_plain(channel, note) ==
    IF note >= 128 THEN <<>>
    ELSE send(NOTE_OFF + channel, note, 0)

note_off_internal(channel, note) ==
    IF note >= 128 THEN <<>>
    ELSE IF selectedOutput = 0 THEN <<Msg(0, NOTE_OFF + channel, note, 0)>>
    ELSE send_midi_to_output(NOTE_ON + channel, note, 0)

RECURSIVE AllNotesOffCC(_)
\* CC 123 on channels ch..15, as sent by stop_clock and midi_panic.
AllNotesOffCC(ch) ==
    IF ch >= 16 THEN <<>>
    ELSE send(CONTROL_CHANGE + ch, 123, 0) \o AllNotesOffCC(ch + 1)

(* --------------------------- playback scanner -------------------------- *)
InRange(tick, startTick, endTick) ==
    IF startTick <= endTick
    THEN tick >= startTick /\ tick < endTick
    ELSE tick >= startTick \/ tick < endTick

RECURSIVE ScanFrom(_, _, _)
\* The events play_events_in_range visits, tracks t..15 in order, as
\* [t, ev] records.
ScanFrom(t, startTick, endTick) ==
    IF t >= MIDI_TRACKS THEN <<>>
    ELSE LET evs == tracks[t].events
             hit(i) == InRange(evs[i].tick, startTick, endTick)
                       /\ evs[i].status \in {NOTE_ON, NOTE_OFF}
             F[i \in 0..Len(evs)] ==
                 IF i = 0 THEN <<>>
                 ELSE IF hit(i) THEN Append(F[i - 1], [t |-> t, ev |-> evs[i]])
                 ELSE F[i - 1]
         IN  F[Len(evs)] \o ScanFrom(t + 1, startTick, endTick)

play_events_in_range(startTick, endTick) == ScanFrom(0, startTick, endTick)

RECURSIVE PlayMsgs(_)
\* The sink calls made for a sequence of scanned events.
PlayMsgs(hits) ==
    IF hits = <<>> THEN <<>>
    ELSE LET h == Head(hits)
         IN  (IF h.ev.status = NOTE_ON
              THEN note_on_internal(h.t, h.ev.note, h.ev.velocity)
              ELSE note_off_internal(h.t, h.ev.note))
             \o PlayMsgs(Tail(hits))

RECURSIVE HitBag(_)
HitBag(hits) ==
    IF hits = <<>> THEN EmptyBag
    ELSE SetToBag({Head(hits)}) (+) HitBag(Tail(hits))

\* The history counts stop at MaxCount.
Saturate(bag) == [h \in DOMAIN bag |-> IF bag[h] > MaxCount THEN MaxCount ELSE bag[h]]

playback_tick ==
    /\ playbackTimer # 0
    /\ clockRunning
    /\ LET currentTick == get_current_tick
           hits == IF currentTick < lastPlaybackTick
                   THEN play_events_in_range(lastPlaybackTick, totalLoopTicks)
                        \o play_events_in_range(0, currentTick)
                   ELSE play_events_in_range(lastPlaybackTick, currentTick)
       IN  /\ out' = PlayMsgs(hits)
           /\ passBag' = Saturate(passBag (+) HitBag(hits))
           /\ lastPlaybackTick' = currentTick
    /\ op' = "playback_tick"
    /\ UNCHANGED <<timeVars, tempoVars, recVars, repeatVars, noteVars, switchVars,
                   outputVars, keyVars, prevPassBag, passDone, tempoChangedInPass,
                   clockRunning, currentBeat, loopStartTime, nextBeatMachTime,
                   beatTimer, playbackTimer>>

(* ------------------------------ transport ------------------------------ *)
\* schedule_next_beat taking the next deadline from the present time.
schedule_next_beat_from_now(deadline, npb) ==
    LET next == now + nanos_to_mach(npb)
        deltaMach == next - now
    IN  [nextBeatMachTime |-> next,
         beatTimer |-> [active |-> TRUE, setAt |-> now,
                        delay |-> IF deltaMach > 0 THEN mach_to_nanos(deltaMach) ELSE 0]]

\* schedule_next_beat with clockRunning: the new deadline and the timer.
schedule_next_beat(deadline, npb) ==
    LET next == deadline + nanos_to_mach(npb)
        deltaMach == next - now
    IN  [nextBeatMachTime |-> next,
         beatTimer |-> [active |-> TRUE, setAt |-> now,
                        delay |-> IF deltaMach > 0 THEN mach_to_nanos(deltaMach) ELSE 0]]

\* beatTimer = NULL
NullTimer == [active |-> FALSE, setAt |-> 0, delay |-> 0]

BeatDue == /\ beatTimer.active
           /\ mach_to_nanos(now - beatTimer.setAt) >= beatTimer.delay

\* The body of beat_tick with start_recording_on_beat leaving beatsRecorded as
\* it is.
BeatBody_keeps_count(beat, deadline, npb, first) ==
    LET beatInBar == beat % BEATS_PER_BAR
        rebase == (beat = 0)
        metro == IF metronomeEnabled /\ selectedOutput = 0
                 THEN <<Msg(0, NOTE_ON + 9,
                            IF beatInBar = 0 THEN 76 ELSE 77,
                            IF beatInBar = 0 THEN 120 ELSE 80)>>
                 ELSE <<>>
        \* start_recording_on_beat
        start == recordArmed /\ capsLockOn
        armed1 == IF start THEN FALSE ELSE recordArmed
        rec1 == IF start THEN TRUE ELSE recording
        beats1 == beatsRecorded
        \* stop_recording when Caps Lock is off
        stop2 == (rec1 \/ armed1) /\ ~capsLockOn
        armed2 == IF stop2 THEN FALSE ELSE armed1
        rec2 == IF stop2 THEN FALSE ELSE rec1
        \* count beats, auto-stop
        beats3 == IF rec2 THEN beats1 + 1 ELSE beats1
        stop3 == rec2 /\ beats3 > TOTAL_BEATS
        sched == schedule_next_beat(deadline, npb)
    IN  /\ loopStartTime' = IF rebase THEN now ELSE loopStartTime
        /\ lastPlaybackTick' = IF rebase THEN 0 ELSE lastPlaybackTick
        /\ passBag' = IF rebase THEN EmptyBag ELSE passBag
        /\ prevPassBag' = IF rebase THEN (IF first THEN EmptyBag ELSE passBag)
                          ELSE prevPassBag
        /\ passDone' = IF rebase THEN ~first ELSE passDone
        /\ tempoChangedInPass' = IF rebase THEN FALSE ELSE tempoChangedInPass
        /\ out' = metro
        /\ recordArmed' = IF stop3 THEN FALSE ELSE armed2
        /\ recording' = IF stop3 THEN FALSE ELSE rec2
        /\ beatsRecorded' = beats3
        /\ currentBeat' = (beat + 1) % TOTAL_BEATS
        /\ nextBeatMachTime' = sched.nextBeatMachTime
        /\ beatTimer' = sched.beatTimer

\* The body of beat_tick rebasing the loop after the beat counter has
\* advanced to 0, as terminalMIDIrecorder.c does.
BeatBody_rebase_after_advance(beat, deadline, npb, first) ==
    LET beatInBar == beat % BEATS_PER_BAR
        rebase == ((beat + 1) % TOTAL_BEATS = 0)
        metro == IF metronomeEnabled /\ selectedOutput = 0
                 THEN <<Msg(0, NOTE_ON + 9,
                            IF beatInBar = 0 THEN 76 ELSE 77,
                            IF beatInBar = 0 THEN 120 ELSE 80)>>
                 ELSE <<>>
        \* start_recording_on_beat
        start == recordArmed /\ capsLockOn
        armed1 == IF start THEN FALSE ELSE recordArmed
        rec1 == IF start THEN TRUE ELSE recording
        beats1 == IF start THEN 0 ELSE beatsRecorded
        \* stop_recording when Caps Lock is off
        stop2 == (rec1 \/ armed1) /\ ~capsLockOn
        armed2 == IF stop2 THEN FALSE ELSE armed1
        rec2 == IF stop2 THEN FALSE ELSE rec1
        \* count beats, auto-stop
        beats3 == IF rec2 THEN beats1 + 1 ELSE beats1
        stop3 == rec2 /\ beats3 > TOTAL_BEATS
        sched == schedule_next_beat(deadline, npb)
    IN  /\ loopStartTime' = IF rebase THEN now ELSE loopStartTime
        /\ lastPlaybackTick' = IF rebase THEN 0 ELSE lastPlaybackTick
        /\ passBag' = IF rebase THEN EmptyBag ELSE passBag
        /\ prevPassBag' = IF rebase THEN (IF first THEN EmptyBag ELSE passBag)
                          ELSE prevPassBag
        /\ passDone' = IF rebase THEN ~first ELSE passDone
        /\ tempoChangedInPass' = IF rebase THEN FALSE ELSE tempoChangedInPass
        /\ out' = metro
        /\ recordArmed' = IF stop3 THEN FALSE ELSE armed2
        /\ recording' = IF stop3 THEN FALSE ELSE rec2
        /\ beatsRecorded' = beats3
        /\ currentBeat' = (beat + 1) % TOTAL_BEATS
        /\ nextBeatMachTime' = sched.nextBeatMachTime
        /\ beatTimer' = sched.beatTimer

\* The body of beat_tick, run with clockRunning true on beat `beat', with
\* deadline `deadline' and timing constants npb; `first' is the direct call
\* from start_clock, which opens the first loop pass.
BeatBody(beat, deadline, npb, first) ==
    LET beatInBar == beat % BEATS_PER_BAR
        rebase == (beat = 0)
        metro == IF metronomeEnabled /\ selectedOutput = 0
                 THEN <<Msg(0, NOTE_ON + 9,
                            IF beatInBar = 0 THEN 76 ELSE 77,
                            IF beatInBar = 0 THEN 120 ELSE 80)>>
                 ELSE <<>>
        \* start_recording_on_beat
        start == recordArmed /\ capsLockOn
        armed1 == IF start THEN FALSE ELSE recordArmed
        rec1 == IF start THEN TRUE ELSE recording
        beats1 == IF start THEN 0 ELSE beatsRecorded
        \* stop_recording when Caps Lock is off
        stop2 == (rec1 \/ armed1) /\ ~capsLockOn
        armed2 == IF stop2 THEN FALSE ELSE armed1
        rec2 == IF stop2 THEN FALSE ELSE rec1
        \* count beats, auto-stop
        beats3 == IF rec2 THEN beats1 + 1 ELSE beats1
        stop3 == rec2 /\ beats3 > TOTAL_BEATS
        sched == schedule_next_beat(deadline, npb)
    IN  /\ loopStartTime' = IF rebase THEN now ELSE loopStartTime
        /\ lastPlaybackTick' = IF rebase THEN 0 ELSE lastPlaybackTick
        /\ passBag' = IF rebase THEN EmptyBag ELSE passBag
        /\ prevPassBag' = IF rebase THEN (IF first THEN EmptyBag ELSE passBag)
                          ELSE prevPassBag
        /\ passDone' = IF rebase THEN ~first ELSE passDone
        /\ tempoChangedInPass' = IF rebase THEN FALSE ELSE tempoChangedInPass
        /\ out' = metro
        /\ recordArmed' = IF stop3 THEN FALSE ELSE armed2
        /\ recording' = IF stop3 THEN FALSE ELSE rec2
        /\ beatsRecorded' = beats3
        /\ currentBeat' = (beat + 1) % TOTAL_BEATS
        /\ nextBeatMachTime' = sched.nextBeatMachTime
        /\ beatTimer' = sched.beatTimer

\* The beat timer fires.
beat_tick ==
    /\ BeatDue
    /\ clockRunning
    /\ BeatBody(currentBeat, nextBeatMachTime, nanosPerBeat, FALSE)
    /\ op' = "beat_tick"
    /\ UNCHANGED <<timeVars, tempoVars, repeatVars, noteVars, switchVars, outputVars,
                   keyVars, clockRunning, playbackTimer>>

start_clock ==
    /\ ~clockRunning
    /\ clockRunning' = TRUE
    /\ LET tc == update_timing_constants(metronomeBPM)
       IN  /\ nanosPerTick' = tc.nanosPerTick
           /\ nanosPerBeat' = tc.nanosPerBeat
           /\ playbackTimer' = calculate_playback_interval(metronomeBPM)
           /\ BeatBody(0, now, tc.nanosPerBeat, TRUE)
    /\ UNCHANGED <<timeVars, metronomeBPM, repeatVars, noteVars, switchVars, outputVars>>

\* stop_clock without its "recording = false" line.
stop_clock_keeps_recording ==
    /\ clockRunning
    /\ clockRunning' = FALSE
    /\ currentBeat' = 0
    /\ out' = AllNotesOffCC(0)
    /\ heldNoteChannel' = [n \in 0..127 |-> NoChannel]
    /\ playbackTimer' = 0
    /\ beatTimer' = NullTimer
    /\ UNCHANGED <<timeVars, tempoVars, recVars, repeatVars,
                   switchVars, outputVars, histVars, tracks, currentChannel,
                   currentOctave, loopStartTime, nextBeatMachTime, lastPlaybackTick>>

\* stop_clock without the call of stop_playback_timer.
stop_clock_leaves_scanner ==
    /\ clockRunning
    /\ clockRunning' = FALSE
    /\ recording' = FALSE
    /\ currentBeat' = 0
    /\ out' = AllNotesOffCC(0)
    /\ heldNoteChannel' = [n \in 0..127 |-> NoChannel]
    /\ beatTimer' = NullTimer
    /\ UNCHANGED <<timeVars, tempoVars, recordArmed, beatsRecorded, repeatVars,
                   switchVars, outputVars, histVars, tracks, currentChannel,
                   currentOctave, loopStartTime, nextBeatMachTime, lastPlaybackTick,
                   playbackTimer>>

stop_clock ==
    /\ clockRunning
    /\ clockRunning' = FALSE
    /\ recording' = FALSE
    /\ currentBeat' = 0
    /\ out' = AllNotesOffCC(0)
    /\ heldNoteChannel' = [n \in 0..127 |-> NoChannel]
    /\ playbackTimer' = 0
    /\ beatTimer' = NullTimer
    /\ UNCHANGED <<timeVars, tempoVars, recordArmed, beatsRecorded, repeatVars,
                   switchVars, outputVars, histVars, tracks, currentChannel,
                   currentOctave, loopStartTime, nextBeatMachTime, lastPlaybackTick>>

toggle_clock == IF clockRunning THEN stop_clock ELSE start_clock

(* -------------------------------- tempo -------------------------------- *)
\* A clamp that lets the tempo one step past either bound.
ClampWide(bpm) == IF bpm < 19 THEN 19 ELSE IF bpm > 301 THEN 301 ELSE bpm

Clamp(bpm) == IF bpm < 20 THEN 20 ELSE IF bpm > 300 THEN 300 ELSE bpm

\* tempo_change stopping the scanner timer instead of restarting it.
tempo_change_stops_scanner(bpm) ==
    IF recording
    THEN UNCHANGED <<tempoVars, playbackTimer, tempoChangedInPass>>
    ELSE LET b == Clamp(bpm)
             tc == update_timing_constants(b)
         IN  /\ metronomeBPM' = b
             /\ nanosPerTick' = tc.nanosPerTick
             /\ nanosPerBeat' = tc.nanosPerBeat
             /\ playbackTimer' = 0
             /\ tempoChangedInPass' = (tempoChangedInPass \/ b # metronomeBPM)

\* tempo_change(bpm): everything it assigns.
tempo_change(bpm) ==
    IF recording
    THEN UNCHANGED <<tempoVars, playbackTimer, tempoChangedInPass>>
    ELSE LET b == Clamp(bpm)
             tc == update_timing_constants(b)
         IN  /\ metronomeBPM' = b
             /\ nanosPerTick' = tc.nanosPerTick
             /\ nanosPerBeat' = tc.nanosPerBeat
             /\ playbackTimer' = IF clockRunning /\ playbackTimer # 0
                                 THEN calculate_playback_interval(b)
                                 ELSE playbackTimer
             /\ tempoChangedInPass' = (tempoChangedInPass \/ b # metronomeBPM)

\* The hold-to-repeat timer of the tempo keys fires.
tempo_change_timer_callback ==
    /\ tempoChangeTimer
    /\ tempo_change(metronomeBPM + tempoChangeDirection)
    /\ op' = "tempo_change_timer_callback"
    /\ out' = <<>>
    /\ UNCHANGED <<timeVars, recVars, repeatVars, noteVars, switchVars, outputVars,
                   keyVars, passBag, prevPassBag, passDone, clockRunning, currentBeat,
                   loopStartTime, nextBeatMachTime, lastPlaybackTick, beatTimer>>

start_tempo_change_timer(direction) ==
    /\ IF recording
       THEN UNCHANGED <<tempoVars, playbackTimer, tempoChangedInPass,
                        tempoChangeTimer, tempoChangeDirection>>
       ELSE /\ tempoChangeDirection' = direction
            /\ tempo_change(metronomeBPM + direction)
            /\ tempoChangeTimer' = TRUE
    /\ out' = <<>>
    /\ UNCHANGED <<timeVars, recVars, programChangeTimer, programChangeDirection,
                   noteVars, switchVars, outputVars, passBag, prevPassBag, passDone,
                   clockRunning, currentBeat, loopStartTime, nextBeatMachTime,
                   lastPlaybackTick, beatTimer>>

stop_tempo_change_timer ==
    /\ tempoChangeTimer' = FALSE
    /\ out' = <<>>
    /\ UNCHANGED <<timeVars, tempoVars, recVars, clockVars, tempoChangeDirection,
                   programChangeTimer, programChangeDirection, noteVars, switchVars,
                   outputVars, histVars>>

(* ------------------------------- recorder ------------------------------ *)
Event(tick, status, note, velocity) ==
    [tick |-> tick, status |-> status, note |-> note, velocity |-> velocity]

\* quantize_tick without the wrap into the loop.
quantize_tick_unwrapped(tick) ==
    ((tick + TICKS_PER_16TH \div 2) \div TICKS_PER_16TH) * TICKS_PER_16TH

\* A tick rounded to the nearest 16th note and wrapped into the loop.
quantize_tick(tick) ==
    (((tick + TICKS_PER_16TH \div 2) \div TICKS_PER_16TH) * TICKS_PER_16TH) % totalLoopTicks

\* The record block testing clockRunning only.
record_event_when_running(channel, status, note, velocity) ==
    IF clockRunning /\ Len(tracks[channel].events) < MAX_EVENTS_PER_TRACK
    THEN LET tick == IF quantizeEnabled THEN quantize_tick(get_current_tick)
                     ELSE get_current_tick
         IN  [tracks EXCEPT ![channel].events = Append(@, Event(tick, status, note, velocity))]
    ELSE tracks

\* The record block with the capacity test off by one (<=).
record_event_one_more(channel, status, note, velocity) ==
    IF recording /\ clockRunning /\ Len(tracks[channel].events) <= MAX_EVENTS_PER_TRACK
    THEN LET tick == IF quantizeEnabled THEN quantize_tick(get_current_tick)
                     ELSE get_current_tick
         IN  [tracks EXCEPT ![channel].events = Append(@, Event(tick, status, note, velocity))]
    ELSE tracks

\* The "Record if recording" block of note_on and note_off: the track store
\* after the event (status, note, velocity) arrives on `channel'.
record_event(channel, status, note, velocity) ==
    IF recording /\ clockRunning /\ Len(tracks[channel].events) < MAX_EVENTS_PER_TRACK
    THEN LET tick == IF quantizeEnabled THEN quantize_tick(get_current_tick)
                     ELSE get_current_tick
         IN  [tracks EXCEPT ![channel].events = Append(@, Event(tick, status, note, velocity))]
    ELSE tracks

\* A handler that returns without doing anything.
NoEffect ==
    /\ out' = <<>>
    /\ UNCHANGED <<timeVars, tempoVars, recVars, clockVars, repeatVars, noteVars,
                   switchVars, outputVars, histVars>>

note_on(note, velocity) ==
    IF note >= 128 THEN NoEffect
    ELSE /\ out' = note_on_internal(currentChannel, note, velocity)
         /\ heldNoteChannel' = [heldNoteChannel EXCEPT ![note] = currentChannel]
         /\ tracks' = record_event(currentChannel, NOTE_ON, note, velocity)
         /\ UNCHANGED <<timeVars, tempoVars, recVars, clockVars, repeatVars,
                        currentChannel, currentOctave, switchVars, outputVars, histVars>>

note_off(note) ==
    IF note >= 128 \/ heldNoteChannel[note] < 0 THEN NoEffect
    ELSE LET channel == heldNoteChannel[note]
         IN  /\ out' = note_off_internal(channel, note)
             /\ heldNoteChannel' = [heldNoteChannel EXCEPT ![note] = NoChannel]
             /\ tracks' = record_event(channel, NOTE_OFF, note, 0)
             /\ UNCHANGED <<timeVars, tempoVars, recVars, clockVars, repeatVars,
                            currentChannel, currentOctave, switchVars, outputVars,
                            histVars>>

midi_panic ==
    /\ out' = AllNotesOffCC(0)
    /\ heldNoteChannel' = [n \in 0..127 |-> NoChannel]
    /\ UNCHANGED <<timeVars, tempoVars, recVars, clockVars, repeatVars, tracks,
                   currentChannel, currentOctave, switchVars, outputVars, histVars>>

\* program_change without its "if (recording) return" line.
program_change_unguarded(program) ==
    /\ tracks' = [tracks EXCEPT ![currentChannel].program = program]
    /\ out' = send(PROGRAM_CHANGE + currentChannel, program, 0)
    /\ UNCHANGED <<timeVars, tempoVars, recVars, clockVars, repeatVars,
                   currentChannel, currentOctave, heldNoteChannel, switchVars,
                   outputVars, histVars>>

program_change(program) ==
    IF recording THEN NoEffect
    ELSE /\ tracks' = [tracks EXCEPT ![currentChannel].program = program]
         /\ out' = send(PROGRAM_CHANGE + currentChannel, program, 0)
         /\ UNCHANGED <<timeVars, tempoVars, recVars, clockVars, repeatVars,
                        currentChannel, currentOctave, heldNoteChannel, switchVars,
                        outputVars, histVars>>

\* The note-off for notes i..127 on the channel being left, in loop order.
ChannelNotesOff(channel, i) ==
    IF selectedOutput = 0
    THEN [n \in 1..(128 - i) |-> Msg(0, NOTE_OFF + channel, i + n - 1, 0)]
    ELSE IF selectedOutput > midiDestCount THEN <<>>
    ELSE [n \in 1..(128 - i) |-> Msg(selectedOutput, NOTE_ON + channel, i + n - 1, 0)]

\* channel_change without the loop that clears the held-note tracking.
channel_change_keeps_held(channel) ==
    IF recording THEN NoEffect
    ELSE /\ out' = ChannelNotesOff(currentChannel, 0)
                   \o send(PROGRAM_CHANGE + channel, tracks[channel].program, 0)
         /\ currentChannel' = channel
         /\ UNCHANGED <<timeVars, tempoVars, recVars, clockVars, repeatVars, tracks,
                        currentOctave, heldNoteChannel, switchVars, outputVars,
                        histVars>>

channel_change(channel) ==
    IF recording THEN NoEffect
    ELSE /\ out' = ChannelNotesOff(currentChannel, 0)
                   \o send(PROGRAM_CHANGE + channel, tracks[channel].program, 0)
         /\ heldNoteChannel' = [n \in 0..127 |->
                                   IF heldNoteChannel[n] = currentChannel THEN NoChannel
                                   ELSE heldNoteChannel[n]]
         /\ currentChannel' = channel
         /\ UNCHANGED <<timeVars, tempoVars, recVars, clockVars, repeatVars, tracks,
                        currentOctave, switchVars, outputVars, histVars>>

\* clear_current_track without its "if (recording) return" line.
clear_current_track_unguarded ==
    /\ tracks' = [tracks EXCEPT ![currentChannel].events = <<>>]
    /\ out' = <<>>
    /\ UNCHANGED <<timeVars, tempoVars, recVars, clockVars, repeatVars,
                   currentChannel, currentOctave, heldNoteChannel, switchVars,
                   outputVars, histVars>>

clear_current_track ==
    IF recording THEN NoEffect
    ELSE /\ tracks' = [tracks EXCEPT ![currentChannel].events = <<>>]
         /\ out' = <<>>
         /\ UNCHANGED <<timeVars, tempoVars, recVars, clockVars, repeatVars,
                        currentChannel, currentOctave, heldNoteChannel, switchVars,
                        outputVars, histVars>>

(* --------------------------- record transport -------------------------- *)
arm_recording ==
    IF ~clockRunning \/ recording \/ recordArmed THEN UNCHANGED recVars
    ELSE /\ recordArmed' = TRUE
         /\ UNCHANGED <<recording, beatsRecorded>>

stop_recording ==
    IF ~recording /\ ~recordArmed THEN UNCHANGED recVars
    ELSE /\ recording' = FALSE
         /\ recordArmed' = FALSE
         /\ UNCHANGED beatsRecorded

\* The Caps Lock flag changed to `on'.
sync_recording_to_capslock(on) ==
    /\ capsLockOn' = on
    /\ IF on THEN arm_recording ELSE stop_recording
    /\ out' = <<>>
    /\ UNCHANGED <<timeVars, tempoVars, clockVars, repeatVars, noteVars,
                   metronomeEnabled, quantizeEnabled, outputVars, histVars>>

(* ------------------------- program hold-to-repeat ---------------------- *)
NextProgram(direction) == (tracks[currentChannel].program + direction + 128) % 128

\* The hold-to-repeat timer of the program keys fires.
program_change_timer_callback ==
    /\ programChangeTimer
    /\ program_change(NextProgram(programChangeDirection))
    /\ op' = "program_change_timer_callback"
    /\ UNCHANGED keyVars

start_program_change_timer(direction) ==
    IF recording THEN NoEffect
    ELSE /\ programChangeDirection' = direction
         /\ programChangeTimer' = TRUE
         /\ tracks' = [tracks EXCEPT ![currentChannel].program = NextProgram(direction)]
         /\ out' = send(PROGRAM_CHANGE + currentChannel, NextProgram(direction), 0)
         /\ UNCHANGED <<timeVars, tempoVars, recVars, clockVars, tempoChangeTimer,
                        tempoChangeDirection, currentChannel, currentOctave,
                        heldNoteChannel, switchVars, outputVars, histVars>>

stop_program_change_timer ==
    /\ programChangeTimer' = FALSE
    /\ out' = <<>>
    /\ UNCHANGED <<timeVars, tempoVars, recVars, clockVars, tempoChangeTimer,
                   tempoChangeDirection, programChangeDirection, noteVars, switchVars,
                   outputVars, histVars>>

(* --------------------------- switches and octave ----------------------- *)
octave_up ==
    /\ currentOctave' = IF currentOctave < 8 THEN currentOctave + 1 ELSE currentOctave
    /\ out' = <<>>
    /\ UNCHANGED <<timeVars, tempoVars, recVars, clockVars, repeatVars, tracks,
                   currentChannel, heldNoteChannel, switchVars, outputVars, histVars>>

octave_down ==
    /\ currentOctave' = IF currentOctave > 0 THEN currentOctave - 1 ELSE currentOctave
    /\ out' = <<>>
    /\ UNCHANGED <<timeVars, tempoVars, recVars, clockVars, repeatVars, tracks,
                   currentChannel, heldNoteChannel, switchVars, outputVars, histVars>>

toggle_metronome ==
    /\ metronomeEnabled' = ~metronomeEnabled
    /\ out' = <<>>
    /\ UNCHANGED <<timeVars, tempoVars, recVars, clockVars, repeatVars, noteVars,
                   capsLockOn, quantizeEnabled, outputVars, histVars>>

\* The track store with every tick on the 16th-note grid.
quantize_all_tracks ==
    [t \in 0..(MIDI_TRACKS - 1) |->
        [tracks[t] EXCEPT !.events =
            [i \in 1..Len(tracks[t].events) |->
                [tracks[t].events[i] EXCEPT !.tick = quantize_tick(@)]]]]

\* toggle_quantize without its call of quantize_all_tracks.
toggle_quantize_flag_only ==
    /\ quantizeEnabled' = ~quantizeEnabled
    /\ tracks' = tracks
    /\ out' = <<>>
    /\ UNCHANGED <<timeVars, tempoVars, recVars, clockVars, repeatVars, currentChannel,
                   currentOctave, heldNoteChannel, capsLockOn, metronomeEnabled,
                   outputVars, histVars>>

toggle_quantize ==
    /\ quantizeEnabled' = ~quantizeEnabled
    /\ tracks' = IF ~quantizeEnabled THEN quantize_all_tracks ELSE tracks
    /\ out' = <<>>
    /\ UNCHANGED <<timeVars, tempoVars, recVars, clockVars, repeatVars, currentChannel,
                   currentOctave, heldNoteChannel, capsLockOn, metronomeEnabled,
                   outputVars, histVars>>

\* select_midi_output without the test against midiDestCount.
select_midi_output_unchecked(index) ==
    /\ selectedOutput' = index
    /\ out' = <<>>
    /\ UNCHANGED <<timeVars, tempoVars, recVars, clockVars, repeatVars, noteVars,
                   switchVars, midiDestCount, savedFile, histVars>>

select_midi_output(index) ==
    /\ selectedOutput' = IF index = 0 THEN 0
                         ELSE IF index > 0 /\ index <= midiDestCount THEN index
                         ELSE selectedOutput
    /\ out' = <<>>
    /\ UNCHANGED <<timeVars, tempoVars, recVars, clockVars, repeatVars, noteVars,
                   switchVars, midiDestCount, savedFile, histVars>>

(* ------------------------------ MIDI file ------------------------------ *)
\* The bytes of a string constant of the source.
MThd == <<77, 84, 104, 100>>
MTrk == <<77, 84, 114, 107>>

write_big_endian_16(value) == <<(value \div 256) % 256, value % 256>>

write_big_endian_32(value) ==
    <<(value \div 16777216) % 256, (value \div 65536) % 256,
      (value \div 256) % 256, value % 256>>

\* write_variable_length with the buffer written in the order it was filled.
write_variable_length_low_first(value) ==
    LET count == IF value < 128 THEN 1
                 ELSE IF value < 16384 THEN 2
                 ELSE IF value < 2097152 THEN 3 ELSE 4
        group(k) == (value \div (128 ^ k)) % 128
    IN  [i \in 1..count |-> IF i = 1 THEN group(0) ELSE group(i - 1) + 128]

\* write_variable_length with the continuation bit left off.
write_variable_length_unflagged(value) ==
    LET count == IF value < 128 THEN 1
                 ELSE IF value < 16384 THEN 2
                 ELSE IF value < 2097152 THEN 3 ELSE 4
        group(k) == (value \div (128 ^ k)) % 128
    IN  [i \in 1..count |-> group(count - i)]

\* write_variable_length: the 7-bit groups of value, most significant first,
\* every group but the last with bit 7 set.  The buffer of the source holds
\* four groups: value < 2^28, which every tick and delta of a track is.
write_variable_length(value) ==
    LET count == IF value < 128 THEN 1
                 ELSE IF value < 16384 THEN 2
                 ELSE IF value < 2097152 THEN 3 ELSE 4
        group(k) == (value \div (128 ^ k)) % 128
    IN  [i \in 1..count |-> IF i < count THEN group(count - i) + 128 ELSE group(0)]

\* trackCount counting every track, empty or not.
trackCount_all(store) == 1 + MIDI_TRACKS

\* trackCount: the tempo track and every track with events.
trackCount(store) ==
    1 + Cardinality({t \in 0..(MIDI_TRACKS - 1) : Len(store[t].events) > 0})

\* An MTrk chunk: the placeholder length is overwritten with the length of
\* the body once the body is written.
Chunk(body) == MTrk \o write_big_endian_32(Len(body)) \o body

EndOfTrack == write_variable_length(0) \o <<255, 47, 0>>

\* The tempo track: tempo meta event, time signature, end of track.
TempoTrack(bpm) ==
    LET microsPerBeat == 60000000 \div bpm
    IN  Chunk(write_variable_length(0)
              \o <<255, 81, 3, (microsPerBeat \div 65536) % 256,
                   (microsPerBeat \div 256) % 256, microsPerBeat % 256>>
              \o write_variable_length(0) \o <<255, 88, 4, BEATS_PER_BAR, 2, 24, 8>>
              \o EndOfTrack)

RECURSIVE EventBytes(_, _, _, _)
\* The events evs[i..] of track t after an event at lastTick.  status | t is
\* status + t: the low four bits of a stored status are 0.  The events are
\* sorted, so the unsigned delta is the difference.
EventBytes(t, evs, i, lastTick) ==
    IF i > Len(evs) THEN <<>>
    ELSE write_variable_length(evs[i].tick - lastTick)
         \o <<evs[i].status + t, evs[i].note, evs[i].velocity>>
         \o EventBytes(t, evs, i + 1, evs[i].tick)

\* The chunk of track t, whose events are sorted.
TrackChunk(t, track) ==
    Chunk(write_variable_length(0) \o <<PROGRAM_CHANGE + t, track.program>>
          \o EventBytes(t, track.events, 1, 0)
          \o EndOfTrack)

RECURSIVE TrackChunks(_, _)
\* The chunks of the tracks t..15 that hold events.
TrackChunks(t, store) ==
    IF t >= MIDI_TRACKS THEN <<>>
    ELSE (IF Len(store[t].events) = 0 THEN <<>> ELSE TrackChunk(t, store[t]))
         \o TrackChunks(t + 1, store)

\* The file written for a store whose tracks are sorted.
FileBytes(bpm, store) ==
    MThd \o write_big_endian_32(6) \o write_big_endian_16(1)
    \o write_big_endian_16(trackCount(store)) \o write_big_endian_16(TICKS_PER_BEAT)
    \o TempoTrack(bpm)
    \o TrackChunks(0, store)

\* The orders qsort with compare_events can leave a track in: every
\* arrangement of its events with non-decreasing ticks (qsort is not stable).
SortedByTick(evs) ==
    LET n == Len(evs)
        perms == {p \in [1..n -> 1..n] : \A i, j \in 1..n : i # j => p[i] # p[j]}
    IN  {[i \in 1..n |-> evs[p[i]]] : p \in {q \in perms :
            \A i \in 1..n : i < n => evs[q[i]].tick <= evs[q[i + 1]].tick}}

RECURSIVE SortedStores(_, _)
\* The stores in which the tracks t..15 of store are sorted.
SortedStores(t, store) ==
    IF t >= MIDI_TRACKS THEN {store}
    ELSE UNION {SortedStores(t + 1, [store EXCEPT ![t].events = evs]) :
                   evs \in SortedByTick(store[t].events)}

\* save_midi_file: nothing happens if the file cannot be created; otherwise
\* each track with events is sorted in place and the file is written.
save_midi_file ==
    /\ \E created \in BOOLEAN :
          IF ~created THEN tracks' = tracks /\ savedFile' = <<>>
          ELSE \E sorted \in SortedStores(0, tracks) :
                  /\ tracks' = sorted
                  /\ savedFile' = FileBytes(metronomeBPM, sorted)
    /\ out' = <<>>
    /\ UNCHANGED <<timeVars, tempoVars, recVars, clockVars, repeatVars,
                   currentChannel, currentOctave, heldNoteChannel, switchVars,
                   selectedOutput, midiDestCount, histVars>>

(* ------------------------------- keyboard ------------------------------ *)
\* keymapLUT: virtual keycode -> note offset + 1; every other keycode is 0.
keymapLUT ==
    [k \in 0..127 |->
        CASE k = 0 -> 8    [] k = 1 -> 9    [] k = 2 -> 10   [] k = 3 -> 11
          [] k = 4 -> 13   [] k = 5 -> 12   [] k = 6 -> 1    [] k = 7 -> 2
          [] k = 8 -> 3    [] k = 9 -> 4    [] k = 11 -> 5   [] k = 12 -> 17
          [] k = 13 -> 18  [] k = 14 -> 19  [] k = 15 -> 20  [] k = 16 -> 22
          [] k = 17 -> 21  [] k = 31 -> 25  [] k = 32 -> 23  [] k = 34 -> 24
          [] k = 35 -> 26  [] k = 37 -> 16  [] k = 38 -> 14  [] k = 40 -> 15
          [] k = 45 -> 6   [] k = 46 -> 7   [] OTHER -> 0]

ESC_KEYCODE == 53
TAB_KEYCODE == 48
CAPSLOCK_KEYCODE == 57
SPACE_KEYCODE == 49
MINUS_KEYCODE == 27
EQUALS_KEYCODE == 24
LBRACKET_KEYCODE == 33
RBRACKET_KEYCODE == 30
SLASH_KEYCODE == 44
DELETE_KEYCODE == 51
BACKTICK_KEYCODE == 50
BACKSLASH_KEYCODE == 42
RIGHT_ARROW_KEYCODE == 124
LEFT_ARROW_KEYCODE == 123
DOWN_ARROW_KEYCODE == 125
UP_ARROW_KEYCODE == 126
\* KEY_0_KEYCODE .. KEY_9_KEYCODE, indexed by the digit.
DigitKeycode == [d \in 0..9 |->
    CASE d = 0 -> 29 [] d = 1 -> 18 [] d = 2 -> 19 [] d = 3 -> 20 [] d = 4 -> 21
      [] d = 5 -> 23 [] d = 6 -> 22 [] d = 7 -> 26 [] d = 8 -> 28 [] d = 9 -> 25]

keycode_to_note(keycode) ==
    IF keycode >= 128 THEN -1
    ELSE IF keymapLUT[keycode] = 0 THEN -1
    ELSE LET note == (currentOctave * 12) + (keymapLUT[keycode] - 1)
         IN  IF note < 128 THEN note ELSE -1

should_consume_key(keycode) ==
    \/ keycode < 128 /\ keymapLUT[keycode] # 0
    \/ keycode \in {ESC_KEYCODE, SPACE_KEYCODE, CAPSLOCK_KEYCODE, TAB_KEYCODE,
                    LEFT_ARROW_KEYCODE, RIGHT_ARROW_KEYCODE, UP_ARROW_KEYCODE,
                    DOWN_ARROW_KEYCODE, MINUS_KEYCODE, EQUALS_KEYCODE,
                    LBRACKET_KEYCODE, RBRACKET_KEYCODE, SLASH_KEYCODE,
                    DELETE_KEYCODE, BACKTICK_KEYCODE, BACKSLASH_KEYCODE}
    \/ \E d \in 0..9 : keycode = DigitKeycode[d]

\* The chain of key tests of event_tap_callback for a key-down (pressed) or
\* key-up event that is not an auto-repeat.  ESC stops the run loop: main
\* goes on to its cleanup.
Dispatch(pressed, keycode) ==
    IF keycode = ESC_KEYCODE /\ pressed THEN NoEffect /\ op' = "CFRunLoopStop"
    ELSE IF keycode = SPACE_KEYCODE /\ pressed THEN toggle_clock /\ op' = "toggle_clock"
    ELSE IF keycode = TAB_KEYCODE /\ pressed
        THEN toggle_metronome /\ op' = "toggle_metronome"
    ELSE IF keycode = LEFT_ARROW_KEYCODE /\ pressed THEN octave_down /\ op' = "octave_down"
    ELSE IF keycode = RIGHT_ARROW_KEYCODE /\ pressed THEN octave_up /\ op' = "octave_up"
    ELSE IF keycode = UP_ARROW_KEYCODE
        THEN IF pressed THEN start_tempo_change_timer(1) /\ op' = "start_tempo_change_timer"
             ELSE stop_tempo_change_timer /\ op' = "stop_tempo_change_timer"
    ELSE IF keycode = DOWN_ARROW_KEYCODE
        THEN IF pressed THEN start_tempo_change_timer(-1) /\ op' = "start_tempo_change_timer"
             ELSE stop_tempo_change_timer /\ op' = "stop_tempo_change_timer"
    ELSE IF keycode = MINUS_KEYCODE /\ pressed
        THEN channel_change((currentChannel - 1 + 16) % 16) /\ op' = "channel_change"
    ELSE IF keycode = EQUALS_KEYCODE /\ pressed
        THEN channel_change((currentChannel + 1) % 16) /\ op' = "channel_change"
    ELSE IF keycode = LBRACKET_KEYCODE
        THEN IF pressed
             THEN start_program_change_timer(-1) /\ op' = "start_program_change_timer"
             ELSE stop_program_change_timer /\ op' = "stop_program_change_timer"
    ELSE IF keycode = RBRACKET_KEYCODE
        THEN IF pressed
             THEN start_program_change_timer(1) /\ op' = "start_program_change_timer"
             ELSE stop_program_change_timer /\ op' = "stop_program_change_timer"
    ELSE IF keycode = DELETE_KEYCODE /\ pressed
        THEN clear_current_track /\ op' = "clear_current_track"
    ELSE IF keycode = BACKTICK_KEYCODE /\ pressed
        THEN toggle_quantize /\ op' = "toggle_quantize"
    ELSE IF keycode = SLASH_KEYCODE /\ pressed
        THEN save_midi_file /\ op' = "save_midi_file"
    ELSE IF keycode = BACKSLASH_KEYCODE /\ pressed THEN midi_panic /\ op' = "midi_panic"
    ELSE IF pressed /\ \E d \in 0..9 : keycode = DigitKeycode[d]
        THEN select_midi_output(CHOOSE d \in 0..9 : keycode = DigitKeycode[d])
             /\ op' = "select_midi_output"
    ELSE IF keycode_to_note(keycode) >= 0
        THEN IF pressed THEN note_on(keycode_to_note(keycode), 100) /\ op' = "note_on"
             ELSE note_off(keycode_to_note(keycode)) /\ op' = "note_off"
    ELSE NoEffect /\ op' = "event_tap_callback"

\* History of the keyboard's notes.  NoPress: the key is up, or its press
\* sent no NoteOn.
NoPress == [note |-> -1, channel |-> NoChannel, sink |-> -1]

\* The bag of <<note, channel>> pairs with a keyboard NoteOn not yet followed
\* by a NoteOff, after a keyboard handler has sent msgs: a NoteOff (or NoteOn
\* with velocity 0) takes one NoteOn of its note and channel away, CC 123
\* takes away every NoteOn of its channel, and the NoteOn of note_on
\* (keyboardOn) is added.  More than two NoteOns count as two.
Account(bag, msgs, keyboardOn) ==
    LET Chan(m) == m.status % 16
        Kind(m) == m.status - Chan(m)
        IsOff(m) == Kind(m) = NOTE_OFF \/ (Kind(m) = NOTE_ON /\ m.d2 = 0)
        offCount(e) == Cardinality({i \in 1..Len(msgs) :
                          IsOff(msgs[i]) /\ msgs[i].d1 = e[1] /\ Chan(msgs[i]) = e[2]})
        swept(c) == \E i \in 1..Len(msgs) :
                       Kind(msgs[i]) = CONTROL_CHANGE /\ msgs[i].d1 = 123
                       /\ Chan(msgs[i]) = c
        after(e) == IF swept(e[2]) \/ offCount(e) >= bag[e] THEN 0
                    ELSE bag[e] - offCount(e)
        kept == {e \in DOMAIN bag : after(e) > 0}
        ons == IF keyboardOn
               THEN {<<msgs[i].d1, Chan(msgs[i])>> : i \in {j \in 1..Len(msgs) :
                        Kind(msgs[j]) = NOTE_ON /\ msgs[j].d2 > 0}}
               ELSE {}
        count(e) == (IF e \in kept THEN after(e) ELSE 0) + (IF e \in ons THEN 1 ELSE 0)
    IN  [e \in kept \cup ons |-> IF count(e) > 2 THEN 2 ELSE count(e)]

\* A key-down (pressed) or key-up event with no Cmd, Ctrl or Option held.
event_tap_callback(pressed, keycode) ==
    /\ should_consume_key(keycode)
    /\ IF keycode < 128 /\ pressed /\ keyIsHeld[keycode]
       THEN NoEffect /\ op' = "event_tap_callback" /\ UNCHANGED keyVars
       ELSE /\ keyIsHeld' = IF keycode < 128
                            THEN [keyIsHeld EXCEPT ![keycode] = pressed]
                            ELSE keyIsHeld
            /\ Dispatch(pressed, keycode)
            /\ keyPress' = IF keycode >= 128 THEN keyPress
                           ELSE [keyPress EXCEPT ![keycode] =
                                    IF op' = "note_on"
                                    THEN [note |-> keycode_to_note(keycode),
                                          channel |-> currentChannel,
                                          sink |-> selectedOutput]
                                    ELSE NoPress]
            /\ unmatched' = Account(unmatched, out', op' = "note_on")

\* A flags-changed event for Caps Lock: alphaShift is the new latch state.
flags_changed(alphaShift) ==
    /\ sync_recording_to_capslock(alphaShift)
    /\ op' = "sync_recording_to_capslock"
    /\ UNCHANGED keyVars

\* The cleanup of main after CFRunLoopRun returns: the event tap, the MIDI
\* client and the audio graph are released; nothing is sent.
main_cleanup ==
    /\ op = "CFRunLoopStop"
    /\ op' = "main_cleanup"
    /\ NoEffect
    /\ UNCHANGED keyVars

(* ------------------------------ environment ---------------------------- *)
\* A key goes down (or auto-repeats while held); a held key goes up.
KeyDown(keycode) == event_tap_callback(TRUE, keycode)

KeyUp(keycode) == keyIsHeld[keycode] /\ event_tap_callback(FALSE, keycode)

\* No key is down.
NoKeyHeld == \A k \in 0..127 : ~keyIsHeld[k]

\* Time passes: d time units go by between two handlers.
Elapse(d) ==
    /\ mach_to_nanos(now) + d <= MaxNanos
    /\ now' = now + nanos_to_mach(d)
    /\ out' = <<>>
    /\ op' = "advance"
    /\ UNCHANGED <<timebaseInfo, writeValue, tempoVars, recVars, clockVars, repeatVars,
                   noteVars, switchVars, outputVars, histVars, keyVars>>

\* The sub-beat steps: 1 ms (one scanner interval at 120 BPM) and one beat
\* at 120 BPM less 1 ms.
FineSteps == {100000, 49900000}

\* The run loop sleeps until the pending beat timer is due.
AdvanceToBeat ==
    /\ beatTimer.active
    /\ ~BeatDue
    /\ Elapse(beatTimer.delay - mach_to_nanos(now - beatTimer.setAt))
    /\ UNCHANGED fineLeft

\* A sub-beat step goes by, whether or not a timer is due.
AdvanceFine ==
    /\ fineLeft > 0
    /\ fineLeft' = fineLeft - 1
    /\ \E d \in FineSteps : Elapse(d)

(* ------------------------------- start-up ------------------------------ *)
\* The time base of an Intel machine.
Timebases == {[numer |-> 1, denom |-> 1]}

EmptyTracks == [t \in 0..(MIDI_TRACKS - 1) |-> [events |-> <<>>, program |-> 0]]

\* Track stores left by an earlier recording: a note that starts on the last
\* tick of the loop and ends on tick 10, and a note inside the second beat.
WrapTake == [EmptyTracks EXCEPT ![0].events =
                <<Event(totalLoopTicks - 1, NOTE_ON, 36, 100), Event(10, NOTE_OFF, 36, 0)>>]
MidTake == [EmptyTracks EXCEPT ![1].events =
                <<Event(500, NOTE_ON, 38, 100), Event(700, NOTE_OFF, 38, 0)>>]

\* The globals as main() leaves them before CFRunLoopRun, with the given
\* time base, destination count and track store.
Globals(tb, dests, store) ==
    /\ now = 0
    /\ timebaseInfo = tb
    /\ fineLeft = MaxFine
    /\ metronomeBPM = 120
    /\ nanosPerTick = update_timing_constants(120).nanosPerTick
    /\ nanosPerBeat = update_timing_constants(120).nanosPerBeat
    /\ clockRunning = FALSE /\ recording = FALSE /\ recordArmed = FALSE
    /\ capsLockOn = FALSE /\ metronomeEnabled = TRUE /\ quantizeEnabled = FALSE
    /\ currentBeat = 0 /\ beatsRecorded = 0
    /\ loopStartTime = 0 /\ nextBeatMachTime = 0 /\ lastPlaybackTick = 0
    /\ beatTimer = NullTimer /\ playbackTimer = 0
    /\ tempoChangeTimer = FALSE /\ tempoChangeDirection = 0
    /\ programChangeTimer = FALSE /\ programChangeDirection = 0
    /\ tracks = store
    /\ currentChannel = 0 /\ currentOctave = 3
    /\ heldNoteChannel = [n \in 0..127 |-> NoChannel]
    /\ keyIsHeld = [k \in 0..127 |-> FALSE]
    /\ keyPress = [k \in 0..127 |-> NoPress]
    /\ unmatched = EmptyBag
    /\ selectedOutput = 0 /\ midiDestCount = dests
    /\ savedFile = <<>>
    /\ out = <<>> /\ op = "main"
    /\ passBag = EmptyBag /\ prevPassBag = EmptyBag
    /\ passDone = FALSE /\ tempoChangedInPass = FALSE

\* The state before CFRunLoopRun: nothing is being written.
Startup(tb, dests, store) == Globals(tb, dests, store) /\ writeValue = 0

(* ---------------- transport, recorder and quantizer -------------------- *)
Init == \E tb \in Timebases : Startup(tb, 0, EmptyTracks)

\* The note key of this specification: z, offset 0 of the octave.
Z_KEYCODE == 6

\* During a take, a step from the start of a beat to 1 ms before the next.
AdvanceLong ==
    /\ recording
    /\ beatTimer.active /\ now = beatTimer.setAt
    /\ Elapse(beatTimer.delay - 100000)
    /\ UNCHANGED fineLeft

\* The command keys are tapped: pressed with no other command key down and
\* released before anything else happens.
CommandKeys == {SPACE_KEYCODE, BACKTICK_KEYCODE}
Tapped == \A k \in CommandKeys : ~keyIsHeld[k]

\* The user acts round the loop boundary: in the last beat of a loop pass
\* and the first beat of a pass, and before the clock is first started; the
\* clock runs untouched through the beats in between, and once it has been
\* stopped the session is over.
Window == (clockRunning \/ now = 0) /\ currentBeat \in {0, 1} /\ ~BeatDue

Next ==
    \/ Tapped /\ (clockRunning \/ now = 0) /\ KeyDown(SPACE_KEYCODE)
    \/ Tapped /\ Window /\ KeyDown(BACKTICK_KEYCODE)
    \/ \E k \in CommandKeys : KeyUp(k)
    \/ \E on \in BOOLEAN : Tapped /\ Window /\ flags_changed(on)
    \/ Tapped /\ Window /\ ~keyIsHeld[Z_KEYCODE] /\ KeyDown(Z_KEYCODE)
    \/ Tapped /\ Window /\ KeyUp(Z_KEYCODE)
    \/ Tapped /\ beat_tick
    \/ Tapped /\ AdvanceToBeat
    \/ Tapped /\ Window /\ AdvanceLong

Spec == Init /\ [][Next]_vars

\* C4: in every reachable state recording implies that the clock is running.
C4_RecordingImpliesRunning == recording => clockRunning

\* The clock was stopped in the middle of a take: Caps Lock is still on, the
\* take had counted between 1 and TOTAL_BEATS beats, and recording is off.
C4_StoppedDuringTake ==
    /\ op = "toggle_clock" /\ ~clockRunning
    /\ capsLockOn /\ ~recordArmed /\ beatsRecorded \in 1..TOTAL_BEATS
    /\ ~recording

\* C5: in every reachable state armed implies that the clock is running and
\* recording is false; stopping the clock while armed leaves it not armed.
C5_ArmedImpliesRunningNotRecording == recordArmed => (clockRunning /\ ~recording)

\* The note handlers.
NoteOps == {"note_on", "note_off"}

NoAppendStep ==
    (~recording /\ op' \in NoteOps) => tracks' = tracks

\* C6: a note press or release handled while recording is false leaves the
\* events of all 16 tracks as they were.
C6_NoAppendWhenNotRecording == [][NoAppendStep]_vars

\* A note was pressed and sent with the clock running and no take going on,
\* and every track is still empty.
C6_NotePlayedOutsideTake ==
    /\ op = "note_on" /\ out # <<>>
    /\ clockRunning /\ ~recording
    /\ tracks = EmptyTracks

QuantizeRejectedStep ==
    (recording /\ op' = "toggle_quantize") =>
        /\ quantizeEnabled' = quantizeEnabled
        /\ \A t \in 0..(MIDI_TRACKS - 1) :
              /\ Len(tracks'[t].events) = Len(tracks[t].events)
              /\ \A i \in 1..Len(tracks[t].events) :
                    tracks'[t].events[i].tick = tracks[t].events[i].tick

\* C8: while recording is true the backtick command changes neither the
\* input-quantize flag nor the tick of any stored event.
C8_QuantizeRejectedWhileRecording == [][QuantizeRejectedStep]_vars

WellFormed(e) ==
    /\ e.tick >= 0 /\ e.tick < totalLoopTicks
    /\ e.status \in {NOTE_OFF, NOTE_ON}
    /\ e.note >= 0 /\ e.note < 128
    /\ e.velocity >= 0 /\ e.velocity < 128

\* C9: every stored event of every track has 0 <= tick < totalLoopTicks,
\* status 0x80 or 0x90, note < 128 and velocity < 128.
C9_StoredEventsWellFormed ==
    \A t \in 0..(MIDI_TRACKS - 1) :
        \A i \in 1..Len(tracks[t].events) : WellFormed(tracks[t].events[i])

\* With input-quantize on, a note arrived in the last 32nd of the loop
\* during a take and was stored at tick 0.
C9_QuantizedOverLoopEnd ==
    /\ op \in NoteOps /\ recording /\ clockRunning /\ quantizeEnabled
    /\ get_current_tick >= totalLoopTicks - TICKS_PER_16TH \div 2
    /\ Len(tracks[0].events) > 0
    /\ tracks[0].events[Len(tracks[0].events)].tick = 0

CountInRange ==
    \A t \in 0..(MIDI_TRACKS - 1) : Len(tracks[t].events) <= MAX_EVENTS_PER_TRACK

\* A note event arriving during a take on a full track: the track store stays
\* as it is, the note goes to the output and the held-note map is updated.
OverflowStep ==
    LET note == keycode_to_note(Z_KEYCODE)
        full(ch) == Len(tracks[ch].events) = MAX_EVENTS_PER_TRACK
    IN  /\ (recording /\ clockRunning /\ op' = "note_on" /\ full(currentChannel)) =>
              /\ tracks' = tracks
              /\ out' = note_on_internal(currentChannel, note, 100)
              /\ heldNoteChannel'[note] = currentChannel
        /\ (recording /\ clockRunning /\ op' = "note_off" /\ heldNoteChannel[note] >= 0
                /\ full(heldNoteChannel[note])) =>
              /\ tracks' = tracks
              /\ out' = note_off_internal(heldNoteChannel[note], note)
              /\ heldNoteChannel'[note] = NoChannel

\* C10: every track holds at most MAX_EVENTS_PER_TRACK events, and a note
\* event that arrives during a take on a full track is dropped while the note
\* is still sent and the held-note map still updated.
C10_CapacityAndSilentDrop == []CountInRange /\ [][OverflowStep]_vars

\* A note event was handled and sent during a take on a full track whose last
\* stored event is of the other kind: the event was dropped.
C10_EventDropped ==
    /\ op \in NoteOps /\ out # <<>>
    /\ recording /\ clockRunning
    /\ Len(tracks[0].events) = MAX_EVENTS_PER_TRACK
    /\ tracks[0].events[MAX_EVENTS_PER_TRACK].status = (IF op = "note_on" THEN NOTE_OFF ELSE NOTE_ON)


(* ---------------- commands rejected during a take ---------------------- *)
InitGuard == \E tb \in Timebases : Startup(tb, 0, WrapTake)

\* The keys of the guarded commands.
ValueKeys == {MINUS_KEYCODE, EQUALS_KEYCODE, LBRACKET_KEYCODE, RBRACKET_KEYCODE,
              UP_ARROW_KEYCODE, DOWN_ARROW_KEYCODE, DELETE_KEYCODE}

\* The user keeps the tempo within MaxRepeatDelta of the start-up tempo and
\* the program within 0..MaxProgram.
TempoInBounds(direction) ==
    /\ metronomeBPM + direction >= 120 - MaxRepeatDelta
    /\ metronomeBPM + direction <= 120 + MaxRepeatDelta

ProgramInBounds(direction) ==
    /\ tracks[currentChannel].program + direction >= 0
    /\ tracks[currentChannel].program + direction <= MaxProgram

KeyInBounds(k) ==
    CASE k = LBRACKET_KEYCODE -> ProgramInBounds(-1)
      [] k = RBRACKET_KEYCODE -> ProgramInBounds(1)
      [] k = UP_ARROW_KEYCODE -> TempoInBounds(1)
      [] k = DOWN_ARROW_KEYCODE -> TempoInBounds(-1)
      [] OTHER -> TRUE

\* Outside a take the user gives one command: a guarded key is pressed there
\* only while tempo, channel, programs, tracks and repeat directions are as
\* main() left them.  During a take any guarded key may be pressed.
FirstCommand ==
    /\ metronomeBPM = 120 /\ currentChannel = 0 /\ tracks = WrapTake
    /\ tempoChangeDirection = 0 /\ programChangeDirection = 0

\* This specification follows the clock through the first three beats.
GuardBeats == currentBeat \in 1..2

NextGuard ==
    \/ (clockRunning \/ now = 0) /\ NoKeyHeld /\ KeyDown(SPACE_KEYCODE)
    \/ \E k \in ValueKeys :
          NoKeyHeld /\ (recording \/ FirstCommand) /\ KeyInBounds(k) /\ KeyDown(k)
    \/ \E k \in ValueKeys \cup {SPACE_KEYCODE} : KeyUp(k)
    \/ \E on \in BOOLEAN : flags_changed(on)
    \/ TempoInBounds(tempoChangeDirection) /\ tempo_change_timer_callback
    \/ ProgramInBounds(programChangeDirection) /\ program_change_timer_callback
    \/ beat_tick
    \/ GuardBeats /\ AdvanceToBeat

SpecGuard == InitGuard /\ [][NextGuard]_vars

\* The handlers of the guarded commands: key presses and repeat callbacks.
GuardedOps == {"channel_change", "start_program_change_timer", "start_tempo_change_timer",
               "clear_current_track", "tempo_change_timer_callback",
               "program_change_timer_callback"}

RejectedStep ==
    (recording /\ op' \in GuardedOps) =>
        /\ metronomeBPM' = metronomeBPM
        /\ currentChannel' = currentChannel
        /\ tracks' = tracks

\* C7: while recording is true, program change, channel change, tempo change
\* and clear-track, issued by a key press or by a hold-to-repeat callback,
\* leave bpm, currentChannel and every track's program and events unchanged.
C7_CommandsRejectedWhileRecording == [][RejectedStep]_vars

\* The program key has been held since before the take started, and its
\* repeat callback has fired during the take.
C7_RepeatFiredDuringTake ==
    /\ op = "program_change_timer_callback"
    /\ recording /\ programChangeTimer
    /\ (keyIsHeld[LBRACKET_KEYCODE] \/ keyIsHeld[RBRACKET_KEYCODE])

(* ---------------- the scanner at constant tempo ------------------------ *)
InitScan == \E tb \in Timebases : Startup(tb, 0, WrapTake)

\* The scanner timer repeats every 1 ms at 120 BPM: it is served at every
\* instant the model visits before time moves on.
ScannerServed == clockRunning => lastPlaybackTick = get_current_tick

NextScan ==
    \/ (clockRunning \/ now = 0) /\ NoKeyHeld /\ KeyDown(SPACE_KEYCODE)
    \/ KeyUp(SPACE_KEYCODE)
    \/ beat_tick
    \/ playback_tick
    \/ ScannerServed /\ NoKeyHeld /\ AdvanceToBeat
    \/ ScannerServed /\ NoKeyHeld /\ AdvanceFine

SpecScan == InitScan /\ [][NextScan]_vars

\* The events stored on the last tick of the loop, as the scanner reports them.
LastTickEvents ==
    {[t |-> t, ev |-> tracks[t].events[i]] :
        t \in {0}, i \in {j \in 1..Len(tracks[0].events) :
                              tracks[0].events[j].tick = totalLoopTicks - 1}}

\* C1: at constant tempo an event stored at tick totalLoopTicks-1 is emitted
\* by the scanner exactly once in every loop pass (the interval between two
\* consecutive beat-0 rebases).
C1_LastTickOncePerPass ==
    passDone => \A h \in LastTickEvents : CopiesIn(h, prevPassBag) = 1

\* The note-on and note-off messages the scanner emitted for track t in the
\* last completed pass.
PassCount(t, status) ==
    LET hits == {h \in DOMAIN prevPassBag : h.t = t /\ h.ev.status = status}
        RECURSIVE Sum(_)
        Sum(S) == IF S = {} THEN 0
                  ELSE LET h == CHOOSE x \in S : TRUE
                       IN  prevPassBag[h] + Sum(S \ {h})
    IN  Sum(hits)

\* C2: with a NoteOn at tick 7679 and a NoteOff at tick 10 on a track, every
\* loop pass emits exactly one NoteOn and exactly one NoteOff, whatever the
\* order of scanner fires and the beat-0 handler.
C2_OneOnOneOffPerPass ==
    (passDone /\ tracks = WrapTake) =>
        PassCount(0, NOTE_ON) = 1 /\ PassCount(0, NOTE_OFF) = 1
(* ---------------- the scanner under tempo changes ---------------------- *)
InitTempo == \E tb \in Timebases : Startup(tb, 0, MidTake)

\* A tempo key is tapped once per loop pass, within MaxTempoDelta of the
\* start-up tempo, and released before the repeat timer fires.
TempoKeyOk(direction) ==
    /\ ~tempoChangedInPass
    /\ metronomeBPM + direction >= 120 - MaxTempoDelta
    /\ metronomeBPM + direction <= 120 + MaxTempoDelta

\* This specification follows the clock through the first two beats of the
\* loop.
FirstBar == currentBeat \in 1..2

NextTempo ==
    \/ (clockRunning \/ now = 0) /\ NoKeyHeld /\ KeyDown(SPACE_KEYCODE)
    \/ KeyUp(SPACE_KEYCODE)
    \/ beat_tick
    \/ playback_tick
    \/ ScannerServed /\ NoKeyHeld /\ FirstBar /\ AdvanceToBeat
    \/ ScannerServed /\ NoKeyHeld /\ FirstBar /\ AdvanceFine
    \/ TempoKeyOk(1) /\ NoKeyHeld /\ KeyDown(UP_ARROW_KEYCODE)
    \/ TempoKeyOk(-1) /\ NoKeyHeld /\ KeyDown(DOWN_ARROW_KEYCODE)
    \/ \E k \in {UP_ARROW_KEYCODE, DOWN_ARROW_KEYCODE} : KeyUp(k)

SpecTempo == InitTempo /\ [][NextTempo]_vars

\* A tempo change made while the clock runs and nothing is recorded does not
\* move the tick backwards round the loop.
TempoKeepsTick ==
    (clockRunning /\ ~recording /\ metronomeBPM' # metronomeBPM) =>
        LET before == get_current_tick
            after == TickAt(clockRunning', now', loopStartTime', nanosPerTick')
        IN  (after - before + totalLoopTicks) % totalLoopTicks < totalLoopTicks \div 2

\* In a pass with a tempo change no stored event is emitted twice.
NoReEmitAfterTempo ==
    tempoChangedInPass => \A h \in DOMAIN passBag : passBag[h] <= 1

\* C3: when BPM is changed while the clock runs and nothing is recorded, the
\* tick continues monotonically modulo the loop from its value before the
\* change, and within that pass the scanner does not emit an event again.
C3_TempoChangeKeepsPosition ==
    [][TempoKeepsTick]_vars /\ []NoReEmitAfterTempo

(* ---------------- overdub and clear-track ------------------------------ *)
\* Track stores left by an earlier recording: one note-on on track 0 and one
\* on track 1.
OverdubTake == [EmptyTracks EXCEPT ![0].events = <<Event(480, NOTE_ON, 40, 100)>>,
                                   ![1].events = <<Event(960, NOTE_ON, 41, 100)>>]

InitOverdub == \E tb \in Timebases : Startup(tb, 0, OverdubTake)

\* The command keys of this specification, tapped one at a time.  The user
\* plays while the clock runs; once it has been stopped the session is over.
OverdubKeys == {SPACE_KEYCODE, DELETE_KEYCODE, EQUALS_KEYCODE, MINUS_KEYCODE}
OverdubTapped ==
    /\ \A k \in OverdubKeys : ~keyIsHeld[k]
    /\ clockRunning \/ now = 0

\* This specification follows the clock through the first two beats.
OverdubBeats == currentBeat = 1

NextOverdub ==
    \/ OverdubTapped /\ KeyDown(SPACE_KEYCODE)
    \/ OverdubTapped /\ clockRunning /\ KeyDown(DELETE_KEYCODE)
    \/ OverdubTapped /\ clockRunning /\ currentChannel = 0 /\ KeyDown(EQUALS_KEYCODE)
    \/ OverdubTapped /\ clockRunning /\ currentChannel = 1 /\ KeyDown(MINUS_KEYCODE)
    \/ \E k \in OverdubKeys : KeyUp(k)
    \/ \E on \in BOOLEAN : OverdubTapped /\ clockRunning /\ flags_changed(on)
    \/ OverdubTapped /\ clockRunning /\ ~keyIsHeld[Z_KEYCODE] /\ KeyDown(Z_KEYCODE)
    \/ OverdubTapped /\ clockRunning /\ KeyUp(Z_KEYCODE)
    \/ OverdubTapped /\ beat_tick
    \/ OverdubTapped /\ OverdubBeats /\ AdvanceToBeat

SpecOverdub == InitOverdub /\ [][NextOverdub]_vars

\* The stored events of track t are still there after the step, in their
\* places, with their status, note and velocity.
StoredKept(t) ==
    /\ Len(tracks'[t].events) >= Len(tracks[t].events)
    /\ \A i \in 1..Len(tracks[t].events) :
          /\ tracks'[t].events[i].status = tracks[t].events[i].status
          /\ tracks'[t].events[i].note = tracks[t].events[i].note
          /\ tracks'[t].events[i].velocity = tracks[t].events[i].velocity

OverdubStep ==
    /\ \A t \in 0..(MIDI_TRACKS - 1) :
          StoredKept(t) \/ (op' = "clear_current_track" /\ ~recording /\ t = currentChannel)
    /\ (~recording /\ recording') => tracks' = tracks

\* C11: recording is overdub.  The armed -> recording transition and every
\* operation other than clear-track keep the stored events; a track's event
\* count decreases only by clear-track on the current channel while not
\* recording, and clear-track changes no other track.
C11_OverdubAndClear == [][OverdubStep]_vars

\* A take on top of stored events: track 0 holds its old event and, behind it,
\* the note just recorded, and track 1 is as it was.
C11_Overdubbed ==
    /\ op = "note_on" /\ recording
    /\ Len(tracks[0].events) = 2
    /\ tracks[0].events[1] = OverdubTake[0].events[1]
    /\ tracks[1] = OverdubTake[1]

(* ---------------- stopping the clock ----------------------------------- *)
\* One external MIDI destination was found at start-up.
InitStop == \E tb \in Timebases : Startup(tb, 1, WrapTake)

\* The keys of this specification: SPACE, the output keys 0 and 1, and z.
StopKeys == {SPACE_KEYCODE, DigitKeycode[0], DigitKeycode[1]}
StopTapped == \A k \in StopKeys : ~keyIsHeld[k]

\* This specification follows the clock through the first two beats.
StopBeats == currentBeat = 1

NextStop ==
    \/ StopTapped /\ (clockRunning \/ now = 0) /\ KeyDown(SPACE_KEYCODE)
    \/ \E d \in 0..1 : StopTapped /\ selectedOutput # d /\ KeyDown(DigitKeycode[d])
    \/ \E k \in StopKeys : KeyUp(k)
    \/ StopTapped /\ clockRunning /\ ~keyIsHeld[Z_KEYCODE] /\ KeyDown(Z_KEYCODE)
    \/ StopTapped /\ clockRunning /\ KeyUp(Z_KEYCODE)
    \/ StopTapped /\ beat_tick
    \/ StopTapped /\ playback_tick
    \/ StopTapped /\ ScannerServed /\ StopBeats /\ AdvanceToBeat
    \/ StopTapped /\ ScannerServed /\ StopBeats /\ AdvanceFine

SpecStop == InitStop /\ [][NextStop]_vars

\* CC 123 on channels 0..15, in order, to the selected output.
AllNotesOffOnSelected ==
    [ch \in 1..16 |-> Msg(selectedOutput, CONTROL_CHANGE + (ch - 1), 123, 0)]

StopStep ==
    (clockRunning /\ op' = "toggle_clock") =>
        /\ ~clockRunning' /\ ~recording' /\ currentBeat' = 0
        /\ out' = AllNotesOffOnSelected
        /\ \A n \in 0..127 : heldNoteChannel'[n] = NoChannel
        /\ ~beatTimer'.active /\ playbackTimer' = 0

\* While the clock is stopped no timer is pending and neither the beat
\* handler nor the scanner runs.
QuietWhileStopped ==
    /\ ~clockRunning => (~beatTimer.active /\ playbackTimer = 0)
    /\ ~clockRunning => op' \notin {"beat_tick", "playback_tick"}

\* C12: stopping a running clock leaves running = false, recording = false
\* and currentBeat = 0, emits CC 123 on each of the 16 channels through the
\* selected output, clears every held-note entry and cancels the beat timer
\* and the scanner timer; no beat handler or scanner fire follows until the
\* next start.
C12_StopClock == [][StopStep /\ QuietWhileStopped]_vars

\* The clock was stopped with the z key down, its note held, and the external
\* output selected.
C12_StoppedWithNoteHeld ==
    /\ op = "toggle_clock" /\ ~clockRunning
    /\ selectedOutput = 1 /\ Len(out) = 16
    /\ keyIsHeld[Z_KEYCODE] /\ heldNoteChannel[keycode_to_note(Z_KEYCODE)] = NoChannel

(* ---------------- the keyboard with the clock stopped ------------------ *)
InitKeys == \E tb \in Timebases : Startup(tb, 1, EmptyTracks)

\* The second note key of this specification: x, offset 1 of the octave.
X_KEYCODE == 7

NoteKeys == {Z_KEYCODE, X_KEYCODE}

\* The command keys: panic, channel up and down (channels 0 and 1) and the
\* output keys 0 and 1; they are tapped one at a time, note keys are held
\* across them.
PanelKeys == {BACKSLASH_KEYCODE, EQUALS_KEYCODE, MINUS_KEYCODE,
              DigitKeycode[0], DigitKeycode[1]}
PanelTapped == \A k \in PanelKeys : ~keyIsHeld[k]

PanelKeyOk(k) ==
    CASE k = EQUALS_KEYCODE -> currentChannel = 0
      [] k = MINUS_KEYCODE -> currentChannel = 1
      [] k = DigitKeycode[0] -> selectedOutput # 0
      [] k = DigitKeycode[1] -> selectedOutput # 1
      [] OTHER -> TRUE

NextKeys ==
    \/ \E k \in PanelKeys : PanelTapped /\ PanelKeyOk(k) /\ KeyDown(k)
    \/ \E k \in PanelKeys : KeyUp(k)
    \/ \E k \in NoteKeys : PanelTapped /\ ~keyIsHeld[k] /\ KeyDown(k)
    \/ \E k \in NoteKeys : PanelTapped /\ KeyUp(k)

SpecKeys == InitKeys /\ [][NextKeys]_vars

\* The note-off for note n held on channel c, as the selected output takes
\* it: NoteOff on the synth, NoteOn with velocity 0 on an external output.
HeldNoteOff(c, n) ==
    IF selectedOutput = 0 THEN Msg(0, NOTE_OFF + c, n, 0)
    ELSE Msg(selectedOutput, NOTE_ON + c, n, 0)

Sent(m) == \E i \in 1..Len(out') : out'[i] = m

PanicStep ==
    op' = "midi_panic" =>
        /\ \A n \in 0..127 :
              heldNoteChannel[n] # NoChannel => Sent(HeldNoteOff(heldNoteChannel[n], n))
        /\ \A n \in 0..127 : heldNoteChannel'[n] = NoChannel
        /\ \A ch \in 0..15 : Sent(Msg(selectedOutput, CONTROL_CHANGE + ch, 123, 0))

\* C13: panic with notes held sends a NoteOff (NoteOn velocity 0 on an
\* external output) for every held note on its channel, clears the held-note
\* map and emits CC 123 on channels 0..15.
C13_PanicReleasesHeldNotes == [][PanicStep]_vars

(* ---------------- quit ------------------------------------------------- *)
InitQuit == \E tb \in Timebases : Startup(tb, 0, EmptyTracks)

\* The run loop is running: ESC has not been pressed.
Looping == op \notin {"CFRunLoopStop", "main_cleanup"}

\* This specification follows the clock through the first three beats.
QuitBeats == currentBeat \in 1..2

NextQuit ==
    \/ Looping /\ (clockRunning \/ now = 0) /\ ~keyIsHeld[SPACE_KEYCODE]
          /\ KeyDown(SPACE_KEYCODE)
    \/ Looping /\ KeyUp(SPACE_KEYCODE)
    \/ Looping /\ ~keyIsHeld[Z_KEYCODE] /\ KeyDown(Z_KEYCODE)
    \/ Looping /\ KeyUp(Z_KEYCODE)
    \/ Looping /\ beat_tick
    \/ Looping /\ QuitBeats /\ AdvanceToBeat
    \/ Looping /\ KeyDown(ESC_KEYCODE)
    \/ main_cleanup

SpecQuit == InitQuit /\ [][NextQuit]_vars

\* CC 123 on every channel is among the messages msgs.
AllNotesOffIn(msgs) ==
    \A ch \in 0..15 :
        \E i \in 1..Len(msgs) : msgs[i] = Msg(selectedOutput, CONTROL_CHANGE + ch, 123, 0)

\* C14: on quit (ESC) All-Notes-Off is sent on all 16 channels before the
\* outputs are torn down, whether the clock runs or not and whether notes are
\* held or not: by the ESC handler or by the cleanup before it releases them.
C14_AllNotesOffOnQuit ==
    [][op' = "main_cleanup" => (AllNotesOffIn(out) \/ AllNotesOffIn(out'))]_vars

(* ---------------- late beat handlers ----------------------------------- *)
InitLate == \E tb \in Timebases : Startup(tb, 0, EmptyTracks)

\* The run loop is held up: 25 ms, or two and a half beats at 120 BPM.
StallSteps == {2500000, 125000000}

AdvanceStall ==
    /\ fineLeft > 0
    /\ fineLeft' = fineLeft - 1
    /\ \E d \in StallSteps : Elapse(d)

\* This specification follows the clock through beats 1..MaxLateBeat of the
\* first loop pass.
LateBeats == currentBeat \in 1..MaxLateBeat

NextLate ==
    \/ ~clockRunning /\ NoKeyHeld /\ KeyDown(SPACE_KEYCODE)
    \/ KeyUp(SPACE_KEYCODE)
    \/ beat_tick
    \/ NoKeyHeld /\ LateBeats /\ AdvanceToBeat
    \/ NoKeyHeld /\ (~clockRunning \/ LateBeats) /\ AdvanceStall

SpecLate == InitLate /\ [][NextLate]_vars

\* C15: at constant tempo the k-th scheduled beat deadline after a clock
\* start is origin + k * nanosPerBeat, however late the handlers ran.  In the
\* first loop pass the origin is loopStartTime and k is currentBeat.
C15_DeadlinesOnGrid ==
    clockRunning =>
        nextBeatMachTime = loopStartTime + currentBeat * nanos_to_mach(nanosPerBeat)

\* The clock was started some time after launch, and the handler of the third
\* or a later beat ran after its deadline.
C15_LateHandler ==
    /\ clockRunning /\ loopStartTime > 0 /\ currentBeat >= 3
    /\ op = "beat_tick"
    /\ beatTimer.delay > 0 /\ beatTimer.delay < nanosPerBeat

\* A beat handler that was scheduled with zero delay and ran at once does not
\* schedule the next beat with zero delay again.
NoBurstStep ==
    (op' = "beat_tick" /\ beatTimer.delay = 0 /\ now = beatTimer.setAt) =>
        beatTimer'.delay > 0

\* Every handler invocation advances currentBeat by one modulo the loop and
\* the deadline by one beat.
NoSkipStep ==
    op' = "beat_tick" =>
        /\ currentBeat' = (currentBeat + 1) % TOTAL_BEATS
        /\ nextBeatMachTime' = nextBeatMachTime + nanos_to_mach(nanosPerBeat)

\* C16: after a beat handler that ran late by any amount at most one following
\* beat is scheduled with zero delay, later beats are back on the original
\* schedule, and currentBeat advances by exactly 1 modulo 16 per handler.
C16_OneCatchUpBeat == [][NoBurstStep /\ NoSkipStep]_vars

(* ---------------- tempo changes between beats --------------------------- *)
\* The deadline of the beat before the pending one: schedule_next_beat added
\* one beat length, measured with the beat length of that moment, to it.
PreviousDeadline == nextBeatMachTime - nanos_to_mach(nanosPerBeat)

\* A step that changes the tempo while the clock runs and a beat is pending.
TempoChangedBetweenBeats ==
    clockRunning /\ beatTimer.active /\ metronomeBPM' # metronomeBPM

\* After the change the pending beat is due one new beat length after the
\* previous deadline, and its timer fires then.
NextBeatUsesNewTempo ==
    TempoChangedBetweenBeats =>
        /\ nextBeatMachTime' = PreviousDeadline + nanos_to_mach(nanosPerBeat')
        /\ beatTimer'.setAt + beatTimer'.delay = nextBeatMachTime'

\* C17: if BPM is changed between two beats while the clock is running, the
\* next beat after the change fires at the previous beat's deadline plus the
\* new nanosPerBeat.
C17_NextBeatUsesNewTempo == [][NextBeatUsesNewTempo]_vars

(* ---------------- the tempo range --------------------------------------- *)
InitBpm == \E tb \in Timebases : Startup(tb, 1, EmptyTracks)

TempoKeys == {UP_ARROW_KEYCODE, DOWN_ARROW_KEYCODE}

\* The tempo keys are pressed one at a time, tapped or held down while the
\* repeat timer fires; the clock stays stopped or is started at the start-up
\* tempo and left running.
NextBpm ==
    \/ \E k \in TempoKeys : NoKeyHeld /\ KeyDown(k)
    \/ \E k \in TempoKeys : KeyUp(k)
    \/ tempo_change_timer_callback
    \/ ~clockRunning /\ metronomeBPM = 120 /\ NoKeyHeld /\ KeyDown(SPACE_KEYCODE)
    \/ KeyUp(SPACE_KEYCODE)

SpecBpm == InitBpm /\ [][NextBpm]_vars

\* The tempo is in range and the timing constants are those of the tempo.
BpmInRange ==
    /\ metronomeBPM >= 20 /\ metronomeBPM <= 300
    /\ nanosPerTick = update_timing_constants(metronomeBPM).nanosPerTick
    /\ nanosPerBeat = update_timing_constants(metronomeBPM).nanosPerBeat

\* A tempo command, a key press or a firing of the repeat timer, that asks
\* for a tempo outside the range leaves the tempo at the bound.
TempoCommandStep ==
    (op' \in {"start_tempo_change_timer", "tempo_change_timer_callback"}) =>
        /\ metronomeBPM + tempoChangeDirection' < 20 => metronomeBPM' = 20
        /\ metronomeBPM + tempoChangeDirection' > 300 => metronomeBPM' = 300

\* C18: BPM is within [20, 300] in every reachable state: any tempo command
\* (single press or hold-to-repeat) that would take it below 20 or above 300
\* leaves it at the bound, and the derived timing constants always correspond
\* to the current BPM.
C18_BpmClamped == []BpmInRange /\ [][TempoCommandStep]_vars

\* The repeat timer has fired with the tempo at its lower bound, or the up key
\* was pressed with the tempo at its upper bound.
C18_CommandAtBound ==
    \/ /\ metronomeBPM = 20 /\ op = "tempo_change_timer_callback"
       /\ tempoChangeDirection = -1 /\ keyIsHeld[DOWN_ARROW_KEYCODE]
    \/ /\ metronomeBPM = 300 /\ op = "start_tempo_change_timer"
       /\ tempoChangeDirection = 1 /\ keyIsHeld[UP_ARROW_KEYCODE]

(* ---------------- releases after a channel change ----------------------- *)
\* Note key k goes up after the active channel has left the channel of its
\* press.
ReleasedOffChannel(k) ==
    /\ keyIsHeld[k] /\ ~keyIsHeld'[k]
    /\ keyPress[k] # NoPress
    /\ keyPress[k].channel # currentChannel

\* Such a release sends the note-off of the pressed note on the channel of
\* the press.
ReleaseRoutedStep ==
    \A k \in NoteKeys :
        ReleasedOffChannel(k) => Sent(HeldNoteOff(keyPress[k].channel, keyPress[k].note))

\* No note has keyboard NoteOns outstanding on two channels.
HeldOnOneChannel ==
    \A n \in 0..127 :
        Cardinality({c \in 0..(MIDI_TRACKS - 1) : <<n, c>> \in DOMAIN unmatched}) <= 1

\* C19: if a note key is pressed while channel c is active, the active
\* channel is then changed to c' # c, and the key is then released, the
\* release emits the NoteOff for that note on channel c, and a note is never
\* held on more than one channel.
C19_ReleaseRoutedToPressChannel == [][ReleaseRoutedStep]_vars /\ []HeldOnOneChannel

(* ---------------- note keys and octave changes -------------------------- *)
InitOctave == \E tb \in Timebases : Startup(tb, 1, EmptyTracks)

\* Octave up and down, between octaves 3 and 4; tapped one at a time, note
\* keys are held across them.
OctaveKeys == {RIGHT_ARROW_KEYCODE, LEFT_ARROW_KEYCODE}
OctaveTapped == \A k \in OctaveKeys : ~keyIsHeld[k]

OctaveKeyOk(k) ==
    IF k = RIGHT_ARROW_KEYCODE THEN currentOctave = 3 ELSE currentOctave = 4

NextOctave ==
    \/ \E k \in OctaveKeys : OctaveTapped /\ OctaveKeyOk(k) /\ KeyDown(k)
    \/ \E k \in OctaveKeys : KeyUp(k)
    \/ \E k \in NoteKeys : OctaveTapped /\ ~keyIsHeld[k] /\ KeyDown(k)
    \/ \E k \in NoteKeys : OctaveTapped /\ KeyUp(k)

SpecOctave == InitOctave /\ [][NextOctave]_vars

\* C20: in every reachable state, for every note n, HeldNoteMap[n] is either
\* 'not held' or a channel on which exactly one keyboard NoteOn for n has been
\* emitted without a matching NoteOff, for any sequence of key presses,
\* releases and octave changes.
C20_HeldMapMatchesNoteOns ==
    \A n \in 0..127 :
        \/ heldNoteChannel[n] = NoChannel
        \/ CopiesIn(<<n, heldNoteChannel[n]>>, unmatched) = 1

(* ---------------- the record latch before the clock starts -------------- *)
InitLatch == \E tb \in Timebases : Startup(tb, 0, EmptyTracks)

\* This specification follows the clock through the first three beats.
LatchBeats == currentBeat \in 1..3

\* Caps Lock is switched only while the clock is stopped; the clock is then
\* started and runs with the latch as it was left.
NextLatch ==
    \/ NoKeyHeld /\ KeyDown(SPACE_KEYCODE)
    \/ KeyUp(SPACE_KEYCODE)
    \/ \E on \in BOOLEAN : ~clockRunning /\ NoKeyHeld /\ flags_changed(on)
    \/ beat_tick
    \/ NoKeyHeld /\ LatchBeats /\ AdvanceToBeat
    \/ NoKeyHeld /\ ~BeatDue /\ AdvanceFine

SpecLatch == InitLatch /\ [][NextLatch]_vars

\* C21: recording is controlled by the latch's state, not its edges: if the
\* Caps Lock latch is turned ON while the clock is stopped and the clock is
\* then started with the latch still ON, recording begins at a beat without
\* any further latch change.  Here: once the handlers of the first three beats
\* have run with the latch ON throughout, recording is on.
C21_LatchStateStartsRecording ==
    (clockRunning /\ capsLockOn /\ currentBeat = 3) => recording

(* ---------------- input quantize and the 16th-note grid ----------------- *)
\* The grid point nearest to a tick (the later one of two equally near),
\* taken modulo the loop.
NearestGridPoint(tick) ==
    LET grid == {g * TICKS_PER_16TH : g \in 0..(totalLoopTicks \div TICKS_PER_16TH)}
        dist(g) == IF g >= tick THEN g - tick ELSE tick - g
        best == CHOOSE g \in grid :
                    \A h \in grid : dist(g) < dist(h) \/ (dist(g) = dist(h) /\ g >= h)
    IN  best % totalLoopTicks

OnGrid == \A t \in 0..(MIDI_TRACKS - 1) :
              \A i \in 1..Len(tracks[t].events) :
                  tracks[t].events[i].tick % TICKS_PER_16TH = 0

\* Enabling quantize moves every stored event to its nearest grid point and
\* changes nothing else of it.
QuantizeEnabledStep ==
    (~quantizeEnabled /\ quantizeEnabled') =>
        \A t \in 0..(MIDI_TRACKS - 1) :
            /\ Len(tracks'[t].events) = Len(tracks[t].events)
            /\ \A i \in 1..Len(tracks[t].events) :
                  tracks'[t].events[i] =
                      [tracks[t].events[i] EXCEPT !.tick = NearestGridPoint(@)]

\* With quantize disabled a stored event keeps its tick, and an event that is
\* appended carries the tick of the moment.
RawKeptStep ==
    (~quantizeEnabled /\ ~quantizeEnabled') =>
        \A t \in 0..(MIDI_TRACKS - 1) :
            /\ Len(tracks'[t].events) >= Len(tracks[t].events)
            /\ \A i \in 1..Len(tracks[t].events) :
                  tracks'[t].events[i] = tracks[t].events[i]
            /\ \A i \in (Len(tracks[t].events) + 1)..Len(tracks'[t].events) :
                  tracks'[t].events[i].tick = get_current_tick

\* C22: whenever input-quantize is enabled, every stored event in every track
\* has tick mod 120 = 0: enabling quantize rewrites all existing ticks to the
\* nearest 16th-note grid point modulo the loop, events recorded while it is
\* enabled are snapped before being stored, and events recorded with quantize
\* disabled keep their raw tick until quantize is next enabled.
C22_QuantizedOnGrid ==
    /\ [](quantizeEnabled => OnGrid)
    /\ [][QuantizeEnabledStep /\ RawKeptStep]_vars

\* Quantize has just been enabled over a track that holds an event on the
\* grid point after the first beat.
C22_Requantized ==
    /\ quantizeEnabled /\ op = "toggle_quantize"
    /\ \E t \in 0..(MIDI_TRACKS - 1) : \E i \in 1..Len(tracks[t].events) :
          tracks[t].events[i].tick = TICKS_PER_BEAT

(* ---------------- saving the loop as a MIDI file ------------------------ *)
\* Events an earlier recording can have left: a note-on at the loop start, a
\* note-off and a note-on on the same tick, and a note-on on the last tick.
SaveEvents ==
    {Event(0, NOTE_ON, 36, 100), Event(200, NOTE_OFF, 36, 0),
     Event(200, NOTE_ON, 38, 100), Event(totalLoopTicks - 1, NOTE_ON, 40, 100)}

\* Track 0 holds up to MAX_EVENTS_PER_TRACK of them in any order (overdubbed
\* passes append behind later ticks), track 9 is empty or holds one note-off,
\* with program 5.
SaveTakes ==
    {[EmptyTracks EXCEPT ![0].events = evs, ![9] = [events |-> more, program |-> 5]] :
        evs \in UNION {[1..n -> SaveEvents] : n \in 0..MAX_EVENTS_PER_TRACK},
        more \in {<<>>, <<Event(130, NOTE_OFF, 41, 0)>>}}

InitSave == \E tb \in Timebases : \E store \in SaveTakes : Startup(tb, 0, store)

\* Save and the tempo keys, tapped one at a time with the clock stopped; the
\* tempo stays within MaxTempoDelta of the start-up tempo.
SaveKeys == {SLASH_KEYCODE, UP_ARROW_KEYCODE, DOWN_ARROW_KEYCODE}

SaveKeyOk(k) ==
    CASE k = UP_ARROW_KEYCODE -> metronomeBPM + 1 <= 120 + MaxTempoDelta
      [] k = DOWN_ARROW_KEYCODE -> metronomeBPM - 1 >= 120 - MaxTempoDelta
      [] OTHER -> TRUE

NextSave ==
    \/ \E k \in SaveKeys : NoKeyHeld /\ SaveKeyOk(k) /\ KeyDown(k)
    \/ \E k \in SaveKeys : KeyUp(k)

SpecSave == InitSave /\ [][NextSave]_vars

\* A save has just written a file.
Saved == op = "save_midi_file" /\ savedFile # <<>>

\* Reading a file back.  Be(bytes, i, n): the big-endian number in the n
\* bytes from position i.
Be(bytes, i, n) ==
    LET F[k \in 0..n] == IF k = 0 THEN 0 ELSE F[k - 1] * 256 + bytes[i + k - 1]
    IN  F[n]

HasBytes(bytes, i, tag) ==
    /\ i + Len(tag) - 1 <= Len(bytes)
    /\ \A k \in 1..Len(tag) : bytes[i + k - 1] = tag[k]

\* What stands for bytes that are no chunk.
Malformed == <<-1>>

RECURSIVE ChunkBodies(_, _)
\* The bodies of the MTrk chunks from position i to the end of the file;
\* Malformed ends the list if the bytes there are no run of chunks.
ChunkBodies(bytes, i) ==
    IF i = Len(bytes) + 1 THEN <<>>
    ELSE IF ~HasBytes(bytes, i, MTrk) \/ i + 7 > Len(bytes) THEN <<Malformed>>
    ELSE LET n == Be(bytes, i + 4, 4)
         IN  IF i + 7 + n > Len(bytes) THEN <<Malformed>>
             ELSE <<[k \in 1..n |-> bytes[i + 7 + k]]>> \o ChunkBodies(bytes, i + 8 + n)

\* The tracks with events, in file order.
NonEmptyTracks == {t \in 0..(MIDI_TRACKS - 1) : Len(tracks[t].events) > 0}

HeaderAndChunks ==
    LET bodies == ChunkBodies(savedFile, 15)
        nTracks == Be(savedFile, 11, 2)
    IN  /\ HasBytes(savedFile, 1, MThd)
        /\ Be(savedFile, 5, 4) = 6
        /\ Be(savedFile, 9, 2) = 1
        /\ nTracks = 1 + Cardinality(NonEmptyTracks)
        /\ Be(savedFile, 13, 2) = 480
        /\ Len(bodies) = nTracks
        /\ \A k \in 1..Len(bodies) : bodies[k] # Malformed
        \* the conductor track opens with the tempo meta event
        /\ HasBytes(bodies[1], 1, <<0, 255, 81, 3>>)
        /\ Be(bodies[1], 5, 3) = 60000000 \div metronomeBPM
        /\ (metronomeBPM = 120 => Be(bodies[1], 5, 3) = 500000)

\* C23: the saved SMF header declares format 1, division 480 and nTracks =
\* 1 + (number of tracks whose event count is > 0), and exactly that many MTrk
\* chunks follow; with all tracks empty the file holds only the conductor
\* track (nTracks = 1), whose tempo meta encodes 60,000,000 / bpm (500000 at
\* 120 BPM).
C23_HeaderAndTrackCount == Saved => HeaderAndChunks

\* A file has been saved with every track empty at a tempo that does not
\* divide 60,000,000, or with two tracks holding events.
C23_SavedEmptyOrTwoTracks ==
    /\ Saved
    /\ \/ NonEmptyTracks = {} /\ metronomeBPM = 121
       \/ Cardinality(NonEmptyTracks) = 2


\* Byte i of a chunk body, 0 past its end.
At(b, i) == IF i >= 1 /\ i <= Len(b) THEN b[i] ELSE 0

RECURSIVE ReadVlq(_, _, _)
\* The variable-length quantity at position i: its value and the position
\* after it.
ReadVlq(b, i, acc) ==
    IF At(b, i) >= 128 THEN ReadVlq(b, i + 1, acc * 128 + (At(b, i) - 128))
    ELSE [value |-> acc * 128 + At(b, i), next |-> i + 1]

RECURSIVE Messages(_, _, _)
\* The channel messages of a chunk body from position i on, each with the
\* sum of the deltas up to it; meta events only advance the time.
Messages(b, i, tick) ==
    IF i > Len(b) THEN <<>>
    ELSE LET v == ReadVlq(b, i, 0)
             at == tick + v.value
             st == At(b, v.next)
         IN  IF st = 255 THEN Messages(b, v.next + 3 + At(b, v.next + 2), at)
             ELSE IF st \div 16 = PROGRAM_CHANGE \div 16
             THEN <<[tick |-> at, status |-> st, d1 |-> At(b, v.next + 1), d2 |-> 0]>>
                  \o Messages(b, v.next + 2, at)
             ELSE <<[tick |-> at, status |-> st, d1 |-> At(b, v.next + 1),
                     d2 |-> At(b, v.next + 2)]>>
                  \o Messages(b, v.next + 3, at)

\* The events of a sequence with their multiplicities.
BagOf(seq) ==
    [e \in {seq[i] : i \in 1..Len(seq)} |-> Cardinality({i \in 1..Len(seq) : seq[i] = e})]

\* A save that writes a file holds, for each track with events, in track
\* order: the program change, then one message per stored event with
\* non-decreasing times, status | channel, note and velocity, which are the
\* stored events with their multiplicities; the store keeps its events.
RoundTripStep ==
    (op' = "save_midi_file" /\ savedFile' # <<>>) =>
        LET bodies == ChunkBodies(savedFile', 15)
        IN  \A t \in NonEmptyTracks :
                LET k == 1 + Cardinality({u \in NonEmptyTracks : u <= t})
                    msgs == Messages(bodies[k], 1, 0)
                    notes == Tail(msgs)
                    n == Len(tracks[t].events)
                IN  /\ Len(msgs) = 1 + n
                    /\ msgs[1] = [tick |-> 0, status |-> PROGRAM_CHANGE + t,
                                  d1 |-> tracks[t].program, d2 |-> 0]
                    /\ \A i \in 1..n : notes[i].status % 16 = t
                    /\ \A i \in 1..(n - 1) : notes[i].tick <= notes[i + 1].tick
                    /\ BagOf([i \in 1..n |->
                                Event(notes[i].tick, notes[i].status - t,
                                      notes[i].d1, notes[i].d2)])
                         = BagOf(tracks[t].events)
                    /\ BagOf(tracks'[t].events) = BagOf(tracks[t].events)

\* C24: save round-trips the track store: for every non-empty track on
\* channel ch the file holds exactly one channel message per stored event, in
\* non-decreasing tick order, each with delta = tick - previous tick, status |
\* ch, note and velocity, so that summing deltas recovers the same multiset of
\* (tick, status, note, velocity, channel) as stored; two events with equal
\* tick both survive.
C24_SaveRoundTrip == [][RoundTripStep]_vars

\* A file has been saved from a store whose track 0 holds two different
\* events on one tick, with events on track 9 too.
C24_SavedEqualTicks ==
    /\ Saved
    /\ Len(tracks[0].events) = 2
    /\ tracks[0].events[1].tick = tracks[0].events[2].tick
    /\ tracks[0].events[1] # tracks[0].events[2]
    /\ Len(tracks[9].events) = 1

(* ---------------- octave and output selection --------------------------- *)
InitRange == \E tb \in Timebases : \E dests \in 0..MaxDests : Startup(tb, dests, EmptyTracks)

\* The octave keys and the ten output keys, tapped one at a time.
RangeKeys == {RIGHT_ARROW_KEYCODE, LEFT_ARROW_KEYCODE} \cup {DigitKeycode[d] : d \in 0..9}

NextRange ==
    \/ \E k \in RangeKeys : NoKeyHeld /\ KeyDown(k)
    \/ \E k \in RangeKeys : KeyUp(k)

SpecRange == InitRange /\ [][NextRange]_vars

\* Everything the program keeps, apart from which keys are down.
ProgramState == <<tempoVars, recVars, clockVars, repeatVars, noteVars, switchVars,
                  outputVars>>

\* The output key that goes down in this step asks for output d.
DigitPressed(d) == ~keyIsHeld[DigitKeycode[d]] /\ keyIsHeld'[DigitKeycode[d]]

\* An invalid action: octave up at octave 8, octave down at octave 0, an
\* output that does not exist, or the output already selected.
InvalidAction ==
    \/ op' = "octave_up" /\ currentOctave = 8
    \/ op' = "octave_down" /\ currentOctave = 0
    \/ \E d \in 0..9 : DigitPressed(d) /\ (d > midiDestCount \/ d = selectedOutput)

OctaveAndOutputInRange ==
    /\ currentOctave >= 0 /\ currentOctave <= 8
    /\ selectedOutput >= 0 /\ selectedOutput <= midiDestCount

\* C25: invalid user actions are no-ops that leave the whole state unchanged:
\* octave-up at octave 8, octave-down at octave 0, and selecting an output
\* index greater than midiDestCount; consequently currentOctave is in 0..8 and
\* selectedOutput in 0..midiDestCount in every reachable state, and selecting
\* the already selected output changes nothing.
C25_InvalidActionsAreNoOps ==
    /\ []OctaveAndOutputInRange
    /\ [][InvalidAction => (UNCHANGED ProgramState /\ out' = <<>>)]_vars

\* Output 9 has just been asked for where it does not exist, with the octave
\* at its upper end.
C25_InvalidOutputAsked ==
    /\ op = "select_midi_output" /\ keyIsHeld[DigitKeycode[9]]
    /\ midiDestCount < 9 /\ currentOctave = 8

(* ---------------- routing of note messages ------------------------------ *)
\* A stored note inside the first beat, on track 1.
RouteTake == [EmptyTracks EXCEPT ![1].events =
                 <<Event(5, NOTE_ON, 38, 100), Event(10, NOTE_OFF, 38, 0)>>]

InitRoute == \E tb \in Timebases : Startup(tb, 1, RouteTake)

\* The keys of this specification: SPACE, the output keys 0 and 1, channel up
\* and down between channels 0 and 1, and z.
RouteKeys == {SPACE_KEYCODE, DigitKeycode[0], DigitKeycode[1], EQUALS_KEYCODE, MINUS_KEYCODE}
RouteTapped == \A k \in RouteKeys : ~keyIsHeld[k]

\* This specification follows the clock through the first beat.
RouteBeats == currentBeat = 1

NextRoute ==
    \/ RouteTapped /\ (clockRunning \/ now = 0) /\ KeyDown(SPACE_KEYCODE)
    \/ \E d \in 0..1 : RouteTapped /\ selectedOutput # d /\ KeyDown(DigitKeycode[d])
    \/ RouteTapped /\ currentChannel = 0 /\ KeyDown(EQUALS_KEYCODE)
    \/ RouteTapped /\ currentChannel = 1 /\ KeyDown(MINUS_KEYCODE)
    \/ \E k \in RouteKeys : KeyUp(k)
    \/ RouteTapped /\ ~keyIsHeld[Z_KEYCODE] /\ KeyDown(Z_KEYCODE)
    \/ RouteTapped /\ KeyUp(Z_KEYCODE)
    \/ RouteTapped /\ beat_tick
    \/ RouteTapped /\ playback_tick
    \/ RouteTapped /\ ScannerServed /\ RouteBeats /\ AdvanceToBeat
    \/ RouteTapped /\ ScannerServed /\ RouteBeats /\ AdvanceFine

SpecRoute == InitRoute /\ [][NextRoute]_vars

IsNoteMsg(m) == m.status - (m.status % 16) \in {NOTE_ON, NOTE_OFF}

\* Every note message of the last handler went to the sink of the selected
\* output, and none went to an external destination with status NoteOff.
RoutedBySelectedOutput ==
    \A i \in 1..Len(out) :
        IsNoteMsg(out[i]) =>
            /\ out[i].sink = selectedOutput
            /\ (out[i].status - (out[i].status % 16) = NOTE_OFF => out[i].sink = 0)

\* A key release that ends a held note sends its one note-off.
ReleaseSendsOne ==
    \A n \in 0..127 :
        (op' = "note_off" /\ heldNoteChannel[n] # NoChannel
                          /\ heldNoteChannel'[n] = NoChannel) =>
            out' = <<HeldNoteOff(heldNoteChannel[n], n)>>

\* The scanner sends one message per event it plays.
ScannerSendsOnePerEvent ==
    op' = "playback_tick" =>
        LET hits == IF get_current_tick < lastPlaybackTick
                    THEN play_events_in_range(lastPlaybackTick, totalLoopTicks)
                         \o play_events_in_range(0, get_current_tick)
                    ELSE play_events_in_range(lastPlaybackTick, get_current_tick)
        IN  out' = [i \in 1..Len(hits) |->
                       IF hits[i].ev.status = NOTE_ON
                       THEN Msg(selectedOutput, NOTE_ON + hits[i].t,
                                hits[i].ev.note, hits[i].ev.velocity)
                       ELSE HeldNoteOff(hits[i].t, hits[i].ev.note)]

\* A channel change sends one note-off per note of the channel it leaves.
ChannelChangeSendsOnePerNote ==
    op' = "channel_change" =>
        /\ Len(out') = 129
        /\ \A n \in 0..127 : out'[n + 1] = HeldNoteOff(currentChannel, n)

\* C26: every note message is delivered to exactly one sink chosen by
\* selectedOutput at send time: the internal synth iff selectedOutput = 0,
\* otherwise destination selectedOutput - 1; and every NoteOff sent to an
\* external destination is transmitted as NoteOn (0x90 | channel) with
\* velocity 0, whether it comes from a key release, the scanner or a channel
\* change.
C26_NotesRoutedBySelectedOutput ==
    /\ []RoutedBySelectedOutput
    /\ [][ReleaseSendsOne /\ ScannerSendsOnePerEvent /\ ChannelChangeSendsOnePerNote]_vars

\* The scanner has just played the stored note-off to the external
\* destination.
C26_ScannerNoteOffExternal ==
    /\ op = "playback_tick" /\ selectedOutput = 1
    /\ \E i \in 1..Len(out) : out[i] = Msg(1, NOTE_ON + 1, 38, 0)

(* ---------------- record transitions of the beat handler --------------- *)
\* A step in which the beat handler runs: the beat timer fires, or the clock
\* is started and start_clock calls the handler.
BeatFires == op' = "beat_tick" \/ (op' = "toggle_clock" /\ clockRunning')

BeatRecordStep ==
    BeatFires =>
        /\ (recordArmed /\ capsLockOn) =>
               recording' /\ ~recordArmed' /\ beatsRecorded' = 1
        /\ ~capsLockOn => ~recording' /\ ~recordArmed'

\* C27: beat-handler record transitions: when a beat fires with armed = true
\* and the latch ON, the handler ends with recording = true, armed = false and
\* beatsRecorded counted from 0 (value 1 after the same handler's increment);
\* when a beat fires with the latch OFF, the handler ends with recording =
\* false and armed = false.
C27_BeatRecordTransitions == [][BeatRecordStep]_vars

\* A beat has just started a take.
C27_TakeStartedOnBeat ==
    op = "beat_tick" /\ recording /\ ~recordArmed /\ capsLockOn /\ beatsRecorded = 1

(* ---------------- the length of a take ---------------------------------- *)
InitTake == \E tb \in Timebases : Startup(tb, 0, EmptyTracks)

\* The clock is started at start-up time and Caps Lock is switched on at once,
\* before the next beat: the take starts on the beat after the start, one beat
\* length after time 0, and nothing interrupts it.  z is played between beats.
NextTake ==
    \/ ~clockRunning /\ now = 0 /\ NoKeyHeld /\ KeyDown(SPACE_KEYCODE)
    \/ KeyUp(SPACE_KEYCODE)
    \/ clockRunning /\ now = 0 /\ ~capsLockOn /\ NoKeyHeld /\ flags_changed(TRUE)
    \/ clockRunning /\ ~BeatDue /\ ~keyIsHeld[Z_KEYCODE] /\ KeyDown(Z_KEYCODE)
    \/ KeyUp(Z_KEYCODE)
    \/ beat_tick
    \/ ~keyIsHeld[SPACE_KEYCODE] /\ AdvanceToBeat

SpecTake == InitTake /\ [][NextTake]_vars

\* The beat handler ends the take by itself.
AutoStopStep ==
    (op' = "beat_tick" /\ recording /\ ~recording' /\ capsLockOn) =>
        beatsRecorded <= TOTAL_BEATS /\ beatsRecorded' = TOTAL_BEATS + 1

\* The beat on which the take started has run and fewer than 17 beat periods
\* have gone by since its deadline.
InSeventeenBeats ==
    /\ clockRunning /\ capsLockOn /\ ~BeatDue
    /\ now >= nanos_to_mach(nanosPerBeat)
    /\ now < (TOTAL_BEATS + 2) * nanos_to_mach(nanosPerBeat)

\* A note played then is appended to the track, if the track has room.
CaptureStep ==
    (op' = "note_on" /\ InSeventeenBeats
        /\ Len(tracks[currentChannel].events) < MAX_EVENTS_PER_TRACK) =>
        Len(tracks'[currentChannel].events) = Len(tracks[currentChannel].events) + 1

\* C28: a recording that is not interrupted by latch-off or clock stop is
\* auto-stopped by the beat handler exactly when beatsRecorded first exceeds
\* TOTAL_BEATS (16), which gives 17 beats of capture: note events can be
\* appended during 17 consecutive beat periods after the beat on which
\* recording started.
C28_SeventeenBeatsOfCapture == [][AutoStopStep /\ CaptureStep]_vars

(* ---------------- the metronome ----------------------------------------- *)
\* The metronome tick of beat b as the selected output takes it.
MetronomeTick(b) ==
    Msg(selectedOutput, NOTE_ON + 9,
        IF b % BEATS_PER_BAR = 0 THEN 76 ELSE 77,
        IF b % BEATS_PER_BAR = 0 THEN 120 ELSE 80)

\* A run of the beat handler with the metronome enabled sends the tick of its
\* beat, and no other message on channel 9.
MetronomeStep ==
    (BeatFires /\ metronomeEnabled) =>
        /\ Sent(MetronomeTick(currentBeat))
        /\ Cardinality({i \in 1..Len(out') : out'[i].status = NOTE_ON + 9}) = 1

\* C29: on every beat-handler invocation while the metronome is enabled, one
\* metronome NoteOn is emitted through the Output Router on channel 9 - note
\* 76 at velocity 120 when currentBeat mod 4 = 0, otherwise note 77 at
\* velocity 80 - for every value of the selected output.
C29_MetronomeOnEveryBeat == [][MetronomeStep]_vars

(* ---------------- the loop origin --------------------------------------- *)
\* The beat the handler of this step runs on: 0 for the call from
\* start_clock, which has just reset the counter.
HandlerBeat == IF op' = "toggle_clock" THEN 0 ELSE currentBeat

RebaseStep ==
    /\ (BeatFires /\ HandlerBeat = 0) =>
           /\ loopStartTime' = now'
           /\ lastPlaybackTick' = 0
           /\ TickAt(clockRunning', now', loopStartTime', nanosPerTick') = 0
    /\ ~(BeatFires /\ HandlerBeat = 0) =>
           loopStartTime' = loopStartTime

\* C30: in terminalMIDI.c the loop-origin rebase happens exactly in the beat
\* handler whose currentBeat is 0 (once per 16 handler invocations, including
\* the first beat fired by start): at the end of every such handler lastTick =
\* 0 and currentTick evaluated at that instant is 0.
C30_RebaseOnBeatZero == [][RebaseStep]_vars

\* The beat timer has just fired on beat 0 of a later loop pass and moved the
\* loop origin.
C30_RebasedByTimer ==
    /\ op = "beat_tick" /\ currentBeat = 1 /\ passDone
    /\ loopStartTime = now /\ loopStartTime > 0 /\ lastPlaybackTick = 0

(* ---------------- terminalMIDIrecorder.c: the transport ------------------ *)
\* schedule_next_beat of terminalMIDIrecorder.c with clockRunning: a one-shot
\* timer 60/BPM seconds after the present time.
recorder_schedule_next_beat ==
    [active |-> TRUE, setAt |-> now,
     delay |-> update_timing_constants(metronomeBPM).nanosPerBeat]

\* The body of beat_tick of terminalMIDIrecorder.c, run with clockRunning
\* true on beat `beat': metronome, start of an armed take, beat count and
\* auto-stop, advance of the counter, and then the loop reset when the
\* advanced counter is 0.
recorder_beat_body(beat) ==
    LET beatInBar == beat % BEATS_PER_BAR
        metro == IF metronomeEnabled
                 THEN <<Msg(0, NOTE_ON + 9,
                            IF beatInBar = 0 THEN 76 ELSE 77,
                            IF beatInBar = 0 THEN 120 ELSE 80)>>
                 ELSE <<>>
        \* start_recording_on_beat
        start == recordArmed
        rec1 == IF start THEN TRUE ELSE recording
        beats1 == IF start THEN 0 ELSE beatsRecorded
        \* count beats, auto-stop
        beats2 == IF rec1 THEN beats1 + 1 ELSE beats1
        stop2 == rec1 /\ beats2 >= TOTAL_BEATS
        next == (beat + 1) % TOTAL_BEATS
    IN  /\ out' = metro
        /\ recordArmed' = FALSE
        /\ recording' = IF stop2 THEN FALSE ELSE rec1
        /\ beatsRecorded' = beats2
        /\ tracks' = IF start THEN [tracks EXCEPT ![currentChannel].events = <<>>]
                     ELSE tracks
        /\ currentBeat' = next
        /\ loopStartTime' = IF next = 0 THEN now ELSE loopStartTime
        /\ lastPlaybackTick' = IF next = 0 THEN 0 ELSE lastPlaybackTick
        /\ beatTimer' = recorder_schedule_next_beat

\* The beat timer of terminalMIDIrecorder.c fires.
recorder_beat_tick ==
    /\ BeatDue
    /\ clockRunning
    /\ recorder_beat_body(currentBeat)
    /\ op' = "beat_tick"
    /\ UNCHANGED <<timeVars, tempoVars, repeatVars, switchVars, outputVars, keyVars,
                   histVars, currentChannel, currentOctave, heldNoteChannel,
                   clockRunning, nextBeatMachTime, playbackTimer>>

\* start_clock of terminalMIDIrecorder.c: the loop origin is the present
\* time, the scanner runs every millisecond, and the first beat is played
\* at once.
recorder_start_clock ==
    /\ ~clockRunning
    /\ clockRunning' = TRUE
    /\ nanosPerTick' = update_timing_constants(metronomeBPM).nanosPerTick
    /\ playbackTimer' = 100000
    /\ recorder_beat_body(0)
    /\ op' = "toggle_clock"
    /\ UNCHANGED <<timeVars, metronomeBPM, nanosPerBeat, repeatVars, switchVars,
                   outputVars, keyVars, histVars, currentChannel, currentOctave,
                   heldNoteChannel, nextBeatMachTime>>

\* toggle_recording of terminalMIDIrecorder.c.
recorder_toggle_recording ==
    /\ IF recording \/ recordArmed THEN stop_recording ELSE arm_recording
    /\ out' = <<>>
    /\ op' = "toggle_recording"
    /\ UNCHANGED <<timeVars, tempoVars, clockVars, repeatVars, noteVars, switchVars,
                   outputVars, keyVars, histVars>>

InitRecorder == \E tb \in Timebases : Startup(tb, 0, EmptyTracks)

\* The clock of the recorder is started once, at time 0; takes are armed in
\* the first bar.
NextRecorder ==
    \/ now = 0 /\ recorder_start_clock
    \/ clockRunning /\ currentBeat \in 1..BEATS_PER_BAR /\ ~BeatDue
           /\ recorder_toggle_recording
    \/ recorder_beat_tick
    \/ AdvanceToBeat

SpecRecorder == InitRecorder /\ [][NextRecorder]_vars

\* The handler of terminalMIDIrecorder.c that plays beat 0 of the loop.
DownbeatStep ==
    (BeatFires /\ HandlerBeat = 0) =>
        /\ loopStartTime' = now'
        /\ TickAt(clockRunning', now', loopStartTime', nanosPerTick') = 0

\* C31: in terminalMIDIrecorder.c, at every beat-handler invocation that
\* plays beat 0 of the loop (currentBeat = 0 on entry) the loop origin
\* equals that instant, so the current tick at each downbeat is 0 in every
\* loop pass, not only the first.
C31_DownbeatIsLoopOrigin == [][DownbeatStep]_vars

(* ---------------- the tick grid and the beat grid ----------------------- *)
\* The deadline k beats after the loop origin, where the time horizon holds
\* it, falls on tick 480 k.
DeadlineOnTick(k) ==
    nanosPerBeat <= MaxNanos \div k =>
        (k * nanosPerBeat) \div nanosPerTick = TICKS_PER_BEAT * k

\* C32: for every BPM in [20, 300] the derived constants satisfy
\* nanosPerBeat = nanosPerTick * 480, with nanosPerTick the truncated
\* quotient 60e9 / (bpm * 480), so that a beat deadline k beats after the
\* loop origin falls exactly on tick 480 k and the current tick does not
\* reach totalLoopTicks before the 16th beat deadline.
C32_BeatIsWholeTicks ==
    /\ metronomeBPM >= 20 /\ metronomeBPM <= 300
    /\ nanosPerTick = update_timing_constants(metronomeBPM).nanosPerTick
    /\ nanosPerBeat = nanosPerTick * TICKS_PER_BEAT
    /\ \A k \in 1..TOTAL_BEATS : DeadlineOnTick(k)
    /\ TICKS_PER_BEAT * nanosPerTick >= nanosPerBeat

(* ---------------- variable-length quantities ---------------------------- *)
\* The numbers written: every delta of a track, and the numbers on either
\* side of each change of length up to the largest that fits four groups.
VlqValues ==
    (0..(totalLoopTicks - 1))
        \cup {128 ^ k - 1 : k \in 1..4} \cup {128 ^ k : k \in 1..3}
        \cup {128 ^ k + 1 : k \in 1..3} \cup {2 * 128 ^ 3 - 1, 127 * 128 ^ 3}

InitVlq == \E tb \in Timebases : \E v \in VlqValues :
               Globals(tb, 0, EmptyTracks) /\ writeValue = v

\* write_variable_length(f, writeValue) on an empty file.
WriteValue ==
    /\ op = "main"
    /\ savedFile' = write_variable_length(writeValue)
    /\ out' = <<>>
    /\ op' = "write_variable_length"
    /\ UNCHANGED <<timeVars, tempoVars, recVars, clockVars, repeatVars, noteVars,
                   switchVars, selectedOutput, midiDestCount, histVars, keyVars>>

SpecVlq == InitVlq /\ [][WriteValue]_vars

\* C33: for every value v in 0..2^28-1, write_variable_length emits the
\* standard MIDI variable-length quantity: 1 to 4 bytes, most significant
\* 7-bit group first, bit 7 set on every byte but the last and clear on the
\* last, with no redundant leading byte, so that decoding yields v; every
\* delta the writer can produce (0..7679) takes at most 2 bytes.
C33_StandardVlq ==
    op = "write_variable_length" =>
        LET b == savedFile
            read == ReadVlq(b, 1, 0)
        IN  /\ Len(b) >= 1 /\ Len(b) <= 4
            /\ \A i \in 1..(Len(b) - 1) : b[i] >= 128 /\ b[i] <= 255
            /\ b[Len(b)] >= 0 /\ b[Len(b)] < 128
            /\ Len(b) > 1 => b[1] # 128
            /\ read.value = writeValue /\ read.next = Len(b) + 1
            /\ writeValue < totalLoopTicks => Len(b) <= 2

\* The largest number of four groups has been written.
C33_FourBytesWritten ==
    /\ op = "write_variable_length"
    /\ writeValue = 128 ^ 4 - 1
    /\ savedFile = <<255, 255, 255, 127>>

(* ---------------- the held-note map and the active channel -------------- *)
\* C34: in every reachable state each entry of the held-note map is either
\* "not held" or the current active channel: no note is tracked as held on
\* a channel other than currentChannel, so a key release is never routed to
\* a channel different from the active one.
C34_HeldOnActiveChannel ==
    \A n \in 0..127 : heldNoteChannel[n] \in {NoChannel, currentChannel}

\* The channel was changed with a note key down, and a second note key was
\* pressed on the new channel.
C34_HeldAcrossChannelChange ==
    /\ currentChannel = 1
    /\ keyIsHeld[Z_KEYCODE] /\ keyPress[Z_KEYCODE] # NoPress
    /\ keyPress[Z_KEYCODE].channel = 0
    /\ heldNoteChannel[keyPress[Z_KEYCODE].note] = NoChannel
    /\ keyIsHeld[X_KEYCODE] /\ keyPress[X_KEYCODE] # NoPress
    /\ heldNoteChannel[keyPress[X_KEYCODE].note] = 1

(* ---------------- live notes and the scanner ---------------------------- *)
InitLive == \E tb \in Timebases : Startup(tb, 0, EmptyTracks)

\* The clock is started at time 0 with Caps Lock going on at once, so the
\* take starts on the second beat; input-quantize is switched before the
\* start or not at all; the note key z is played during the take, and the
\* scanner timer is served before more time passes.
LiveKeys == {SPACE_KEYCODE, BACKTICK_KEYCODE}
LiveTapped == \A k \in LiveKeys : ~keyIsHeld[k]

\* This specification follows the clock through the first three beats.
LiveBeats == currentBeat \in 1..2

NextLive ==
    \/ LiveTapped /\ ~clockRunning /\ now = 0 /\ KeyDown(SPACE_KEYCODE)
    \/ LiveTapped /\ ~clockRunning /\ now = 0 /\ ~quantizeEnabled
           /\ KeyDown(BACKTICK_KEYCODE)
    \/ \E k \in LiveKeys : KeyUp(k)
    \/ LiveTapped /\ clockRunning /\ now = 0 /\ ~capsLockOn /\ flags_changed(TRUE)
    \/ LiveTapped /\ recording /\ ~keyIsHeld[Z_KEYCODE] /\ KeyDown(Z_KEYCODE)
    \/ LiveTapped /\ recording /\ KeyUp(Z_KEYCODE)
    \/ LiveTapped /\ beat_tick
    \/ LiveTapped /\ playback_tick
    \/ LiveTapped /\ ScannerServed /\ LiveBeats /\ AdvanceToBeat
    \/ LiveTapped /\ ScannerServed /\ recording /\ AdvanceFine

SpecLive == InitLive /\ [][NextLive]_vars

\* The stored events the scanner plays when its timer fires now.
ScannerHits ==
    LET currentTick == get_current_tick
    IN  IF currentTick < lastPlaybackTick
        THEN play_events_in_range(lastPlaybackTick, totalLoopTicks)
             \o play_events_in_range(0, currentTick)
        ELSE play_events_in_range(lastPlaybackTick, currentTick)

\* Every event of a store that was empty at start-up was appended by a key
\* press or release; until the first loop pass has completed it was
\* appended in the present pass.
NoEchoStep ==
    (op' = "playback_tick" /\ ~passDone /\ recording) =>
        /\ ScannerHits = <<>>
        /\ out' = <<>>

\* C35: during overdub recording in terminalMIDI.c, an event appended by a
\* live key press is not also emitted by the playback scanner in the loop
\* pass in which it was recorded, with input-quantize on or off.
C35_NoEchoOfLiveNotes == [][NoEchoStep]_vars

(* ---------------- the NoteOff of a key release -------------------------- *)
\* The other note keys that are down on the NoteOn that key k sent.
SamePress(k) ==
    {j \in NoteKeys \ {k} : keyIsHeld'[j] /\ keyPress'[j] = keyPress[k]}

\* Once the release of a note key has been handled, the NoteOn of its press
\* has had its NoteOff or All-Notes-Off: no NoteOn of that note and channel
\* is outstanding but those of the keys still down.
ReleaseMatchedStep ==
    \A k \in NoteKeys :
        (keyIsHeld[k] /\ ~keyIsHeld'[k] /\ keyPress[k] # NoPress) =>
            CopiesIn(<<keyPress[k].note, keyPress[k].channel>>, unmatched')
                <= Cardinality(SamePress(k))

\* C36: every NoteOn emitted for a note-key press is matched by a NoteOff
\* (or All-Notes-Off) for the same note on the same channel no later than
\* the handling of that key's release, for any commands issued between
\* press and release, including octave up and down.
C36_ReleaseMatchesPress == [][ReleaseMatchedStep]_vars

(* ---------------- tracks at the end of a take --------------------------- *)
\* The events of track t with the given status and note.
StoredWith(t, status, n) ==
    {i \in 1..Len(tracks'[t].events) :
        tracks'[t].events[i].status = status /\ tracks'[t].events[i].note = n}

\* When recording ends, every track holds, for each note, a NoteOff for
\* every NoteOn.
BalancedAtEndStep ==
    (recording /\ ~recording') =>
        \A t \in 0..(MIDI_TRACKS - 1) : \A n \in 0..127 :
            Cardinality(StoredWith(t, NOTE_OFF, n))
                >= Cardinality(StoredWith(t, NOTE_ON, n))

\* C37: whenever recording ends (latch off, auto-stop in the beat handler,
\* or clock stop), every track is balanced: for each note, every recorded
\* NoteOn has a recorded NoteOff for that note in the same track, also when
\* a key is still held at the moment recording ends or panic is pressed
\* during recording.
C37_TracksBalancedAtEnd == [][BalancedAtEndStep]_vars

(* ---------------- the sink of a release --------------------------------- *)
\* The release of a note key that sends a NoteOff sends it to the sink that
\* took the NoteOn of the press.
ReleaseToPressSinkStep ==
    \A k \in NoteKeys :
        (keyIsHeld[k] /\ ~keyIsHeld'[k] /\ keyPress[k] # NoPress /\ op' = "note_off") =>
            \A i \in 1..Len(out') :
                (IsNoteMsg(out'[i]) /\ out'[i].d1 = keyPress[k].note) =>
                    out'[i].sink = keyPress[k].sink

\* C38: the NoteOff for a held note is delivered to the same sink (internal
\* synth or the same external destination) that received its NoteOn, even
\* if the selected output is changed with a number key while the note is
\* held.
C38_NoteOffToSinkOfNoteOn == [][ReleaseToPressSinkStep]_vars

(* ---------------- quantization and the order of events ------------------ *)
\* Ticks on both sides of the midpoints between grid points, at the start
\* and at the end of the loop.
QuantizeTicks ==
    {0, TICKS_PER_16TH \div 2 - 1, TICKS_PER_16TH \div 2, TICKS_PER_16TH,
     TICKS_PER_BEAT + 1, 2 * TICKS_PER_BEAT - 1,
     totalLoopTicks - TICKS_PER_16TH, totalLoopTicks - TICKS_PER_16TH \div 2 - 1,
     totalLoopTicks - TICKS_PER_16TH \div 2, totalLoopTicks - 1}

\* Track stores left by an earlier recording with quantize off: a note-on
\* and a note-off of one note.
QuantizeTakes ==
    {[EmptyTracks EXCEPT ![0].events =
         <<Event(a, NOTE_ON, 36, 100), Event(b, NOTE_OFF, 36, 0)>>] :
        a \in QuantizeTicks, b \in QuantizeTicks}

InitQuantize == \E tb \in Timebases : \E store \in QuantizeTakes : Startup(tb, 0, store)

\* The quantize key is tapped with the clock stopped.
NextQuantize ==
    \/ NoKeyHeld /\ KeyDown(BACKTICK_KEYCODE)
    \/ KeyUp(BACKTICK_KEYCODE)

SpecQuantize == InitQuantize /\ [][NextQuantize]_vars

\* Enabling quantize keeps the order of the ticks of any two events of a
\* track.
QuantizeOrderStep ==
    (op' = "toggle_quantize" /\ quantizeEnabled') =>
        \A t \in 0..(MIDI_TRACKS - 1) :
            /\ Len(tracks'[t].events) = Len(tracks[t].events)
            /\ \A i, j \in 1..Len(tracks[t].events) :
                  tracks[t].events[i].tick <= tracks[t].events[j].tick =>
                      tracks'[t].events[i].tick <= tracks'[t].events[j].tick

\* C39: quantization preserves tick order: for any two stored events a and
\* b of a track with a.tick <= b.tick before quantization, a.tick <= b.tick
\* holds afterwards; in particular a NoteOff never ends up at an earlier
\* tick than the NoteOn it follows, for all ticks in [0, 7680).
C39_QuantizeKeepsOrder == [][QuantizeOrderStep]_vars

(* ---------------- the two timers of the clock --------------------------- *)
InitTimers == \E tb \in Timebases : Startup(tb, 0, EmptyTracks)

\* This specification follows the clock through the first four beats.
TimerBeats == currentBeat \in 1..3

\* The run loop sleeps until the beat timer is due.
SleepToBeat == NoKeyHeld /\ TimerBeats /\ AdvanceToBeat

\* A key that is down goes up.
Release == \E k \in {SPACE_KEYCODE, UP_ARROW_KEYCODE, DOWN_ARROW_KEYCODE} : KeyUp(k)

NextTimers ==
    \/ (clockRunning \/ now = 0) /\ NoKeyHeld /\ KeyDown(SPACE_KEYCODE)
    \/ TempoKeyOk(1) /\ NoKeyHeld /\ KeyDown(UP_ARROW_KEYCODE)
    \/ TempoKeyOk(-1) /\ NoKeyHeld /\ KeyDown(DOWN_ARROW_KEYCODE)
    \/ Release
    \/ beat_tick
    \/ playback_tick
    \/ SleepToBeat

\* The run loop serves a timer that is due, time goes on while the run loop
\* has nothing to serve, and keys are let go.
SpecTimers ==
    /\ InitTimers /\ [][NextTimers]_vars
    /\ WF_vars(beat_tick) /\ WF_vars(SleepToBeat) /\ WF_vars(Release)

\* A beat timer is pending and the scanner timer is active exactly while the
\* clock runs.
TimersMatchClock ==
    /\ beatTimer.active <=> clockRunning
    /\ playbackTimer # 0 <=> clockRunning
    /\ beatTimer.active => beatTimer.delay >= 0 /\ beatTimer.setAt <= now

\* A tempo change with the clock running leaves the scanner with a timer of
\* the interval of the new tempo.
ScannerKeptStep ==
    (clockRunning /\ metronomeBPM' # metronomeBPM) =>
        playbackTimer' = calculate_playback_interval(metronomeBPM')

\* While the clock runs on beat b the handler of the next beat runs, unless
\* the clock is stopped first.
NextBeatFires ==
    \A b \in 1..3 :
        (clockRunning /\ currentBeat = b) ~> (~clockRunning \/ currentBeat # b)

====
